---- MODULE Spec2Model ----
(***************************************************************************)
(* Model of the two edge functions of prompt-style-oracle                  *)
(*   supabase/functions/evaluate-prompt/index.ts   (OpenAI and Gemini      *)
(*                                                  variants)              *)
(*   supabase/functions/generate-usecases/index.ts                         *)
(* One request is followed from its arrival to its response.  Texts are    *)
(* sequences of tokens: a token is one character ("{", "\n", "1", ...) or  *)
(* a word of letters that no pattern of the code can split ("usecases",    *)
(* "idea", "null", "a").  The regular expressions and JSON.parse of the    *)
(* code are operators over such sequences.  An operator hands a value it   *)
(* uses more than once to a local operator as a parameter.                 *)
(***************************************************************************)
EXTENDS Integers, Sequences, FiniteSets, TLC

VARIABLES fn, apiKey, pc, req, department, deptContext, reply, result, returned, stage,
          outcome, response, calls, handlers, store, ui

vars == <<fn, apiKey, pc, req, department, deptContext, reply, result, returned, stage,
          outcome, response, calls, handlers, store, ui>>

(***************************************************************************)
(* Characters and character classes                                        *)
(***************************************************************************)
NL == "\n"
SP == " "
QUOTE == "\""
\* the backtick character (the module's lexer has no literal for it)
BQ == "<backtick>"
ESCQUOTE == "\\\""
ESCNL == "\\n"

\* \d
Digits == {"0", "1", "2", "3", "4", "5", "6", "7", "8", "9"}

\* (?:use case|solution|idea) under the i flag
IsLabel(c) == c \in {"use case", "Use Case", "solution", "Solution", "idea", "Idea"}

\* (?:json|JSON)
IsJsonTag(c) == c \in {"json", "JSON"}

(***************************************************************************)
(* Strings                                                                 *)
(***************************************************************************)
\* least element of a set of positions, 0 for the empty set
MinOr0(ps) == IF ps = {} THEN 0 ELSE CHOOSE x \in ps : \A y \in ps : x <= y

\* greatest element of a set of positions, 0 for the empty set
MaxOr0(ps) == IF ps = {} THEN 0 ELSE CHOOSE x \in ps : \A y \in ps : y <= x

\* s.slice(i - 1): the tokens from position i on
From(s, i) == SubSeq(s, i, Len(s))

\* least position j >= i with s[j] in set cs, Len(s) + 1 if none
First(s, cs, i) == MinOr0({j \in i..Len(s) : s[j] \in cs} \cup {Len(s) + 1})

\* least position j >= i with s[j] outside set cs, Len(s) + 1 if none
FirstNot(s, cs, i) == MinOr0({j \in i..Len(s) : s[j] \notin cs} \cup {Len(s) + 1})

\* \s*: first position >= i holding a token that is not white space, Len(s) + 1 if none
SkipWs(s, i) == FirstNot(s, {SP, NL}, i)

\* \d*: first position >= i holding a token that is not a digit, Len(s) + 1 if none
SkipDigits(s, i) == FirstNot(s, Digits, i)

\* String.prototype.trim
Trim(s) == SubSeq(s, SkipWs(s, 1), MaxOr0({j \in 1..Len(s) : s[j] \notin {SP, NL}}))

\* first position >= i holding token c, 0 if none
IndexOf(s, c, i) == MinOr0({j \in i..Len(s) : s[j] = c})

\* least position >= i where three backticks start, 0 if none
NextFence(s, i) ==
    MinOr0({j \in i..(Len(s) - 2) : s[j] = BQ /\ s[j + 1] = BQ /\ s[j + 2] = BQ})

(***************************************************************************)
(* JSON values                                                             *)
(***************************************************************************)
Null == [t |-> "null", v |-> <<>>]

Undefined == [t |-> "undefined", v |-> <<>>]

Bool(lex) == [t |-> "bool", v |-> <<lex>>]

Num(lex) == [t |-> "num", v |-> lex]

Str(s) == [t |-> "str", v |-> s]

Arr(items) == [t |-> "arr", v |-> items]

Obj(members) == [t |-> "obj", v |-> members]

Member(k, x) == [k |-> k, val |-> x]

IsString(x) == x.t = "str"

IsArray(x) == x.t = "arr"

IsObject(x) == x.t = "obj"

Nullish(x) == x.t \in {"null", "undefined"}

\* position of key k among the members, 0 if absent
KeyIndex(members, k) == MinOr0({i \in 1..Len(members) : members[i].k = k})

\* x.k of JavaScript for a value x that is neither null nor undefined:
\* the member of an object, undefined for a missing key and for every
\* property name the model uses on a number, a string, a boolean or an array
Get(x, k) ==
    LET At(i) == IF i = 0 THEN Undefined ELSE x.v[i].val
    IN  IF IsObject(x) THEN At(KeyIndex(x.v, k)) ELSE Undefined

\* the object with member k set, as the parser builds it: a repeated key
\* keeps its place and takes the last value
Put(members, k, x) ==
    LET At(i) == IF i = 0 THEN Append(members, Member(k, x))
                 ELSE [members EXCEPT ![i] = Member(k, x)]
    IN  At(KeyIndex(members, k))

\* !x of JavaScript
Falsy(x) ==
    \/ x.t \in {"null", "undefined"}
    \/ x.t = "str" /\ x.v = <<>>
    \/ x.t = "num" /\ \A i \in 1..Len(x.v) : x.v[i] \in {"0", "-", "."}
    \/ x.t = "bool" /\ x.v = <<"false">>

(***************************************************************************)
(* JSON.parse and JSON.stringify                                           *)
(***************************************************************************)
ParseOk(x, next) == [ok |-> TRUE, val |-> x, next |-> next]

ParseFail == [ok |-> FALSE, val |-> Undefined, next |-> 0]

\* the token at position i, the empty word past the end of the text
TokenAt(s, i) == IF i \in 1..Len(s) THEN s[i] ELSE ""

\* the characters of a string literal whose opening quote is before position
\* i: the literal runs to the next quote q and holds no newline
ParseChars(s, i, acc) ==
    LET Unescape(c) == IF c = ESCQUOTE THEN QUOTE ELSE IF c = ESCNL THEN NL ELSE c
        Closed(q) ==
            IF TokenAt(s, q) = QUOTE
            THEN ParseOk(Str(acc \o [j \in 1..(q - i) |-> Unescape(s[i + j - 1])]), q + 1)
            ELSE ParseFail
    IN  Closed(First(s, {QUOTE, NL}, i))

\* a number literal from position i: -? (0 | [1-9][0-9]*) (. [0-9]+)?
\* d is where its digits start, e where its integer part ends and f where
\* the fraction that starts at g ends
ParseNumber(s, i) ==
    LET End(f, g) == IF f = g THEN ParseFail ELSE ParseOk(Num(SubSeq(s, i, f - 1)), f)
        Fraction(d, e) ==
            IF e = d THEN ParseFail
            ELSE IF e <= Len(s) /\ s[e] = "." THEN End(SkipDigits(s, e + 1), e + 1)
            ELSE ParseOk(Num(SubSeq(s, i, e - 1)), e)
        Integer(d) ==
            Fraction(d, IF d <= Len(s) /\ s[d] = "0" THEN d + 1 ELSE SkipDigits(s, d))
    IN  Integer(IF s[i] = "-" THEN i + 1 ELSE i)

RECURSIVE ParseValue(_, _), ParseElements(_, _, _), ParseMembers(_, _, _)
\* the elements of an array, the next element starting at position i: after
\* an element r comes a comma and the next element, or the end of the array
ParseElements(s, i, acc) ==
    LET After(r) ==
            CASE r.ok /\ TokenAt(s, SkipWs(s, r.next)) = ","
                   -> ParseElements(s, SkipWs(s, SkipWs(s, r.next) + 1), Append(acc, r.val))
              [] r.ok /\ TokenAt(s, SkipWs(s, r.next)) = "]"
                   -> ParseOk(Arr(Append(acc, r.val)), SkipWs(s, r.next) + 1)
              [] OTHER -> ParseFail
    IN  After(ParseValue(s, i))

\* the members of an object, the next key k starting at position i: after
\* the key comes a colon and the value r, and after a member a comma and
\* the next member, or the end of the object
ParseMembers(s, i, acc) ==
    LET AfterValue(key, r) ==
            CASE r.ok /\ TokenAt(s, SkipWs(s, r.next)) = ","
                   -> ParseMembers(s, SkipWs(s, SkipWs(s, r.next) + 1), Put(acc, key, r.val))
              [] r.ok /\ TokenAt(s, SkipWs(s, r.next)) = "}"
                   -> ParseOk(Obj(Put(acc, key, r.val)), SkipWs(s, r.next) + 1)
              [] OTHER -> ParseFail
        AfterKey(k) ==
            IF k.ok /\ TokenAt(s, SkipWs(s, k.next)) = ":"
            THEN AfterValue(k.val.v, ParseValue(s, SkipWs(s, SkipWs(s, k.next) + 1)))
            ELSE ParseFail
    IN  IF TokenAt(s, i) = QUOTE THEN AfterKey(ParseChars(s, i + 1, <<>>)) ELSE ParseFail

\* the value that starts at position i (i is past leading white space)
ParseValue(s, i) ==
    LET Object(j) ==
            IF TokenAt(s, j) = "}" THEN ParseOk(Obj(<<>>), j + 1) ELSE ParseMembers(s, j, <<>>)
        Array(j) ==
            IF TokenAt(s, j) = "]" THEN ParseOk(Arr(<<>>), j + 1) ELSE ParseElements(s, j, <<>>)
    IN  CASE TokenAt(s, i) = "{" -> Object(SkipWs(s, i + 1))
          [] TokenAt(s, i) = "[" -> Array(SkipWs(s, i + 1))
          [] TokenAt(s, i) = QUOTE -> ParseChars(s, i + 1, <<>>)
          [] TokenAt(s, i) = "null" -> ParseOk(Null, i + 1)
          [] TokenAt(s, i) \in {"true", "false"} -> ParseOk(Bool(s[i]), i + 1)
          [] TokenAt(s, i) \in Digits \cup {"-"} -> ParseNumber(s, i)
          [] OTHER -> ParseFail

\* JSON.parse(s): ok is FALSE where JSON.parse throws a SyntaxError; nothing
\* but white space may follow the value
JSONparse(s) ==
    LET Complete(r) == IF r.ok /\ SkipWs(s, r.next) > Len(s) THEN r ELSE ParseFail
    IN  Complete(ParseValue(s, SkipWs(s, 1)))

\* the characters of a string as JSON.stringify quotes them
Escape(s) ==
    [i \in 1..Len(s) |-> IF s[i] = QUOTE THEN ESCQUOTE ELSE IF s[i] = NL THEN ESCNL ELSE s[i]]

RECURSIVE JSONstringify(_), StringifyElements(_, _), StringifyMembers(_, _)
\* JSON.stringify(x) for a value x that is not undefined
JSONstringify(x) ==
    CASE x.t = "null" -> <<"null">>
      [] x.t \in {"bool", "num"} -> x.v
      [] x.t = "str" -> <<QUOTE>> \o Escape(x.v) \o <<QUOTE>>
      [] x.t = "arr" -> <<"[">> \o StringifyElements(x.v, TRUE) \o <<"]">>
      [] OTHER -> <<"{">> \o StringifyMembers(x.v, TRUE) \o <<"}">>

\* an undefined element of an array is written as null
StringifyElements(items, first) ==
    IF items = <<>> THEN <<>>
    ELSE (IF first THEN <<>> ELSE <<",">>)
         \o JSONstringify(IF Head(items).t = "undefined" THEN Null ELSE Head(items))
         \o StringifyElements(Tail(items), FALSE)

\* a member whose value is undefined is left out
StringifyMembers(members, first) ==
    IF members = <<>> THEN <<>>
    ELSE IF Head(members).val.t = "undefined" THEN StringifyMembers(Tail(members), first)
    ELSE (IF first THEN <<>> ELSE <<",">>)
         \o <<QUOTE>> \o Escape(Head(members).k) \o <<QUOTE, ":">>
         \o JSONstringify(Head(members).val)
         \o StringifyMembers(Tail(members), FALSE)

(***************************************************************************)
(* The cleanup that precedes the strict parse                              *)
(***************************************************************************)
\* .replace(/```(?:json|JSON)?\n?/g, ''), from position i on: the code
\* block that opens at position f is cut out
RECURSIVE RemoveCodeBlocks(_, _)
RemoveCodeBlocks(s, i) ==
    LET AfterNewline(k) == IF k <= Len(s) /\ s[k] = NL THEN k + 1 ELSE k
        AfterTag(j) == AfterNewline(IF j <= Len(s) /\ IsJsonTag(s[j]) THEN j + 1 ELSE j)
        Cut(f) == IF f = 0 THEN From(s, i)
                  ELSE SubSeq(s, i, f - 1) \o RemoveCodeBlocks(s, AfterTag(f + 3))
    IN  Cut(NextFence(s, i))

\* .replace(/\n?```/g, ''), from position i on: the backticks that start at
\* position f are cut out with the newline before them
RECURSIVE RemoveClosingCodeBlocks(_, _)
RemoveClosingCodeBlocks(s, i) ==
    LET Cut(f) == IF f = 0 THEN From(s, i)
                  ELSE SubSeq(s, i, (IF f > i /\ s[f - 1] = NL THEN f - 1 ELSE f) - 1)
                       \o RemoveClosingCodeBlocks(s, f + 3)
    IN  Cut(NextFence(s, i))

\* .replace(/^[^{]*\{/g, '{')
RemoveTextBeforeFirstBrace(s) ==
    LET Cut(i) == IF i > 0 THEN From(s, i) ELSE s
    IN  Cut(IndexOf(s, "{", 1))

\* .replace(/\}[^}]*$/g, '}')
RemoveTextAfterLastBrace(s) ==
    LET Cut(i) == IF i > 0 THEN SubSeq(s, 1, i) ELSE s
    IN  Cut(MaxOr0({j \in 1..Len(s) : s[j] = "}"}))

\* cleanedResult of both Gemini handlers
cleanedResult(text) ==
    Trim(RemoveTextAfterLastBrace(RemoveTextBeforeFirstBrace(
        RemoveClosingCodeBlocks(RemoveCodeBlocks(text, 1), 1))))

(***************************************************************************)
(* The three usecasePatterns of generate-usecases and String.matchAll      *)
(*   1  /(?:use case|solution|idea)\s*\d*[:.]\s*([^\n]+)\n([^]*?)          *)
(*       (?=(?:use case|solution|idea)\s*\d*[:.])|\n\n|$/gi                *)
(*   2  /\d+\.\s*([^\n]+)\n([^]*?)(?=\d+\.|$)/gi                           *)
(*   3  /-\s*([^\n]+)\n([^]*?)(?=-\s*|$)/gi                                *)
(***************************************************************************)
\* a match: where it starts and ends, and the groups that took part
NoMatch == [found |-> FALSE, start |-> 0, end |-> 0,
            has1 |-> FALSE, g1 |-> <<>>, has2 |-> FALSE, g2 |-> <<>>]

\* what opens a block of pattern p, at position q: the position after it, 0 if none
\*   1  (?:use case|solution|idea)\s*\d*[:.]      2  \d+\.      3  -
BlockHead(p, s, q) ==
    LET End(k, cs) == IF k <= Len(s) /\ s[k] \in cs THEN k + 1 ELSE 0
    IN  IF q > Len(s) THEN 0
        ELSE IF p = 1
        THEN (IF IsLabel(s[q]) THEN End(SkipDigits(s, SkipWs(s, q + 1)), {":", "."}) ELSE 0)
        ELSE IF p = 2
        THEN (IF s[q] \in Digits THEN End(SkipDigits(s, q), {"."}) ELSE 0)
        ELSE End(q, {"-"})

\* the lookahead that closes a block of pattern p, tried at position e:
\* the head of the next block, and for patterns 2 and 3 also the end of the text
BlockLookahead(p, s, e) == BlockHead(p, s, e) > 0 \/ (p # 1 /\ e = Len(s) + 1)

\* ([^]*?)(?=...): least position e in from..Len(s)+1 where the lookahead
\* of pattern p holds, 0 if none
LazyEnd(p, s, from) == MinOr0({e \in from..(Len(s) + 1) : BlockLookahead(p, s, e)})

\* ([^\n]+)\n([^]*?)(?=...) can match with group 1 starting at position a
TitleAt(p, s, a) ==
    LET Ends(nl) == nl > 0 /\ LazyEnd(p, s, nl + 1) > 0
    IN  a <= Len(s) /\ s[a] # NL /\ Ends(IndexOf(s, NL, a))

\* head \s*([^\n]+)\n([^]*?)(?=...) at position q: \s* is greedy and gives
\* white space back one character at a time, so group 1 starts at the
\* greatest position a of the white space run after the head (which ends
\* before h) that lets the rest match; group 1 ends before the newline at
\* nl and group 2 before e
BlockAt(p, s, q) ==
    LET Match(a, nl, e) ==
            [found |-> TRUE, start |-> q, end |-> e,
             has1 |-> TRUE, g1 |-> SubSeq(s, a, nl - 1),
             has2 |-> TRUE, g2 |-> SubSeq(s, nl + 1, e - 1)]
        Body(a, nl) == Match(a, nl, LazyEnd(p, s, nl + 1))
        Titled(a) == IF a = 0 THEN NoMatch ELSE Body(a, IndexOf(s, NL, a))
        After(h) ==
            IF h = 0 THEN NoMatch
            ELSE Titled(MaxOr0({a \in h..SkipWs(s, h) : TitleAt(p, s, a)}))
    IN  After(BlockHead(p, s, q))

\* pattern 1 without its last alternative, the end of the text
MatchAtNoEnd(p, s, q) ==
    LET Plain(end) == [NoMatch EXCEPT !.found = TRUE, !.start = q, !.end = end]
        Or(block) ==
            IF block.found THEN block
            ELSE IF p = 1 /\ q + 1 <= Len(s) /\ s[q] = NL /\ s[q + 1] = NL THEN Plain(q + 2)
            ELSE NoMatch
    IN  Or(BlockAt(p, s, q))

\* the match of pattern p that starts at position q: the alternatives of
\* pattern 1 are tried in the order block, \n\n, $, and no group takes part
\* in the last two
MatchAt(p, s, q) ==
    LET Plain(end) == [NoMatch EXCEPT !.found = TRUE, !.start = q, !.end = end]
        Or(block) ==
            IF block.found THEN block
            ELSE IF p = 1 /\ q + 1 <= Len(s) /\ s[q] = NL /\ s[q + 1] = NL THEN Plain(q + 2)
            ELSE IF p = 1 /\ q = Len(s) + 1 THEN Plain(q)
            ELSE NoMatch
    IN  Or(BlockAt(p, s, q))

\* RegExp.prototype.exec with lastIndex i - 1: the leftmost match from position i on
Exec(p, s, i) ==
    LET At(q) == IF q = 0 THEN NoMatch ELSE MatchAt(p, s, q)
    IN  At(MinOr0({q \in i..(Len(s) + 1) : MatchAt(p, s, q).found}))

\* [...s.matchAll(pattern)] from position i on: an empty match advances
\* lastIndex by one
RECURSIVE MatchAll(_, _, _)
MatchAll(p, s, i) ==
    LET Rest(m) ==
            IF ~m.found THEN <<>>
            ELSE <<m>> \o MatchAll(p, s, IF m.end = m.start THEN m.end + 1 ELSE m.end)
    IN  Rest(Exec(p, s, i))

(***************************************************************************)
(* The patterns of the regex fallback of evaluate-prompt (Gemini variant)  *)
(***************************************************************************)
\* the word w of a pattern under the i flag
IsWord(w, c) ==
    c \in (IF w = "match" THEN {"match", "Match", "MATCH"}
           ELSE IF w = "does" THEN {"does", "Does", "DOES"}
           ELSE IF w = "rating" THEN {"rating", "Rating", "RATING"}
           ELSE IF w = "score" THEN {"score", "Score", "SCORE"}
           ELSE IF w = "reason" THEN {"reason", "Reason", "REASON"}
           ELSE IF w = "explanation" THEN {"explanation", "Explanation", "EXPLANATION"}
           ELSE {"analysis", "Analysis", "ANALYSIS"})

\* (yes|no|partially|maybe|unclear) under the i flag
IsVerdict(c) == c \in {"yes", "Yes", "YES", "no", "No", "NO", "partially", "Partially",
                       "maybe", "Maybe", "unclear", "Unclear"}

\* ["']? at position i: the position after it
SkipQuote(s, i) == IF i <= Len(s) /\ s[i] \in {QUOTE, "'"} THEN i + 1 ELSE i

\* ["']?\s*:\s* at position i: the position after it, 0 if none
Colon(s, i) ==
    LET At(c) == IF c <= Len(s) /\ s[c] = ":" THEN SkipWs(s, c + 1) ELSE 0
    IN  At(SkipWs(s, SkipQuote(s, i)))

\* :?\s* at position i: the position after it
OptColon(s, i) == SkipWs(s, IF i <= Len(s) /\ s[i] = ":" THEN i + 1 ELSE i)

\* a match of a pattern with one group: where it starts, and the group
NoHit == [found |-> FALSE, start |-> 0, g1 |-> <<>>]

Hit(start, g) == [found |-> TRUE, start |-> start, g1 |-> g]

\* the hit h of the tail of a pattern as a hit of the pattern that starts at q
HitFrom(q, h) == IF h.found THEN Hit(q, h.g1) ELSE NoHit

\* ["']?(yes|no|partially|maybe|unclear) at position i
VerdictAt(s, i) ==
    LET At(v) == IF v <= Len(s) /\ IsVerdict(s[v]) THEN Hit(i, <<s[v]>>) ELSE NoHit
    IN  At(SkipQuote(s, i))

\* [^:]* is greedy and gives back one character at a time: the greatest
\* position p in lo..hi from which :?\s*["']?(verdict) matches, 0 if none
GreedyVerdict(s, lo, hi) == MaxOr0({p \in lo..hi : VerdictAt(s, OptColon(s, p)).found})

\* does.*match[^:]*:?\s*["']?(verdict) at position q: .* is greedy, so the
\* last word match of the line (at m) that lets the rest match is taken
DoesMatchAt(s, q) ==
    LET Verdict(p) == HitFrom(q, VerdictAt(s, OptColon(s, p)))
        AfterMatch(m) ==
            IF m = 0 THEN NoHit
            ELSE Verdict(GreedyVerdict(s, m + 1, First(s, {":"}, m + 1)))
    IN  IF q > Len(s) THEN NoHit
        ELSE IF ~IsWord("does", s[q]) THEN NoHit
        ELSE AfterMatch(MaxOr0({m \in (q + 1)..(First(s, {NL}, q + 1) - 1) :
                                  IsWord("match", s[m])
                                  /\ GreedyVerdict(s, m + 1, First(s, {":"}, m + 1)) > 0}))

\* matchRegex at position q:
\* (?:match["']?\s*:\s*["']?|does.*match[^:]*:?\s*["']?)(verdict)
MatchRegexAt(s, q) ==
    LET AfterColon(c) == IF c = 0 THEN NoHit ELSE HitFrom(q, VerdictAt(s, c))
    IN  IF q <= Len(s) /\ IsWord("match", s[q]) THEN AfterColon(Colon(s, q + 1))
        ELSE DoesMatchAt(s, q)

\* (\s*\/\s*10)? at position i: the position after it
SkipOutOfTen(s, i) ==
    LET Ten(b) == IF b + 1 <= Len(s) /\ s[b] = "1" /\ s[b + 1] = "0" THEN b + 2 ELSE i
        Slash(a) == IF a <= Len(s) /\ s[a] = "/" THEN Ten(SkipWs(s, a + 1)) ELSE i
    IN  Slash(SkipWs(s, i))

\* ["']?(\d+(?:\.\d+)?(?:\s*\/\s*10)?[^"',}\n]*) at position i
RatingAt(s, i) ==
    LET Fraction(j) ==
            IF j + 1 <= Len(s) /\ s[j] = "." /\ s[j + 1] \in Digits
            THEN SkipDigits(s, j + 1) ELSE j
        Number(d) ==
            IF d <= Len(s) /\ s[d] \in Digits
            THEN Hit(i, SubSeq(s, d, First(s, {QUOTE, "'", ",", "}", NL},
                                           SkipOutOfTen(s, Fraction(SkipDigits(s, d)))) - 1))
            ELSE NoHit
    IN  Number(SkipQuote(s, i))

\* score[^:]*:?\s*["']?(rating) at position q: [^:]* ends before the
\* greatest position p that lets the rest match
ScoreAt(s, q) ==
    LET Rating(p) == IF p = 0 THEN NoHit ELSE HitFrom(q, RatingAt(s, OptColon(s, p)))
    IN  IF q > Len(s) THEN NoHit
        ELSE IF ~IsWord("score", s[q]) THEN NoHit
        ELSE Rating(MaxOr0({p \in (q + 1)..First(s, {":"}, q + 1) :
                              RatingAt(s, OptColon(s, p)).found}))

\* ratingRegex at position q:
\* (?:rating["']?\s*:\s*["']?|score[^:]*:?\s*["']?)(rating)
RatingRegexAt(s, q) ==
    LET AfterColon(c) == IF c = 0 THEN NoHit ELSE HitFrom(q, RatingAt(s, c))
    IN  IF q <= Len(s) /\ IsWord("rating", s[q]) THEN AfterColon(Colon(s, q + 1))
        ELSE ScoreAt(s, q)

\* the characters [^"'}\n] excludes
ReasonStops == {QUOTE, "'", "}", NL}

\* the end of [^"'}\n]+(?:\n[^"'}\n]+)* started at position a: the run ends
\* before the first stop that is not a newline followed by one more
\* character of the run
ReasonEnd(s, a) ==
    LET EndsAt(b) ==
            /\ b > Len(s) \/ s[b] \in ReasonStops
            /\ ~(b + 1 <= Len(s) /\ s[b] = NL /\ s[b + 1] \notin ReasonStops)
    IN  MinOr0({b \in (a + 1)..(Len(s) + 1) : EndsAt(b)})

\* the names of reasonPatterns, in their order
ReasonKinds == <<"reason", "explanation", "analysis">>

\* reasonPatterns[k] at position q:
\* (?:reason["']?\s*:\s*["']?)([^"'}\n]+(?:\n[^"'}\n]+)*)
\* the \s* after the colon gives white space back until the captured text
\* can start
ReasonPatternAt(k, s, q) ==
    LET StartsAt(b) == b <= Len(s) /\ s[b] \notin ReasonStops
        Text(a) == Hit(q, SubSeq(s, a, ReasonEnd(s, a) - 1))
        AfterSpace(a0) == IF a0 = 0 THEN NoHit ELSE Text(SkipQuote(s, a0))
        AfterQuote(c) ==
            IF c > Len(s) THEN NoHit
            ELSE IF s[c] # ":" THEN NoHit
            ELSE AfterSpace(MaxOr0({a \in (c + 1)..SkipWs(s, c + 1) :
                                      StartsAt(SkipQuote(s, a))}))
    IN  IF q > Len(s) THEN NoHit
        ELSE IF ~IsWord(ReasonKinds[k], s[q]) THEN NoHit
        ELSE AfterQuote(SkipWs(s, SkipQuote(s, q + 1)))

\* the pattern named by kind at position q
RegexAt(kind, s, q) ==
    IF kind = "match" THEN MatchRegexAt(s, q)
    ELSE IF kind = "rating" THEN RatingRegexAt(s, q)
    ELSE ReasonPatternAt(CHOOSE k \in 1..3 : ReasonKinds[k] = kind, s, q)

\* String.prototype.match without the g flag: the leftmost match from position i on
StringMatch(kind, s, i) ==
    LET At(q) == IF q = 0 THEN NoHit ELSE RegexAt(kind, s, q)
    IN  At(MinOr0({q \in i..Len(s) : RegexAt(kind, s, q).found}))

\* .replace(/\{[^}]*\}/g, ''), from position i on
RECURSIVE RemoveJsonLike(_, _)
RemoveJsonLike(s, i) ==
    LET ToClose(open, close) ==
            IF close = 0 THEN From(s, i)
            ELSE SubSeq(s, i, open - 1) \o RemoveJsonLike(s, close + 1)
        FromOpen(open) ==
            IF open = 0 THEN From(s, i) ELSE ToClose(open, IndexOf(s, "}", open + 1))
    IN  FromOpen(IndexOf(s, "{", i))

(***************************************************************************)
(* The normalizers                                                         *)
(***************************************************************************)
\* a string constant of the source and a property name
S(w) == Str(<<w>>)

K(w) == <<w>>

\* the number of use cases the extraction keeps: slice(0, 5)
MaxUseCases == 5

\* a.slice(-n): the last n items instead of the first n
SliceLast(a, n) == SubSeq(a, (IF n <= Len(a) THEN Len(a) - n ELSE 0) + 1, Len(a))

\* a.slice(0, n)
Slice(a, n) == SubSeq(a, 1, IF n <= Len(a) THEN n ELSE Len(a))

\* group?.trim() || fallback
TrimOr(has, g, fallback) ==
    LET Or(trimmed) == IF trimmed # <<>> THEN Str(trimmed) ELSE S(fallback)
    IN  IF has THEN Or(Trim(g)) ELSE S(fallback)

\* the item built from one match of a usecasePattern
UseCaseOfMatch(m) ==
    Obj(<<Member(K("title"), TrimOr(m.has1, m.g1, "AI Solution")),
          Member(K("description"),
                 TrimOr(m.has2, m.g2, "AI-powered solution for the described challenge")),
          Member(K("benefits"), S("Improved efficiency and automation")),
          Member(K("implementation"), S("Can be implemented using modern AI technologies"))>>)

\* the item of the general response, used when no pattern matched
GeneralUseCase == Obj(<<Member(K("title"), S("AI-Powered Solution"))>>)

\* the item that replaces a response without a usecases array
StructureUseCase == Obj(<<Member(K("title"), S("AI Solution Analysis"))>>)

\* the item of the body of the outer catch block
ErrorUseCase == Obj(<<Member(K("title"), S("Error in Generation"))>>)

\* { usecases: items }
UseCases(items) == Obj(<<Member(K("usecases"), Arr(items))>>)

\* the loop over usecasePatterns from pattern p on: it stops at the first
\* pattern whose matches ms are not empty (pattern 0: none matched)
RECURSIVE PatternLoop(_, _)
PatternLoop(text, p) ==
    LET Step(ms) ==
            IF Len(ms) > 0 THEN [pattern |-> p, matches |-> ms] ELSE PatternLoop(text, p + 1)
    IN  IF p > 3 THEN [pattern |-> 0, matches |-> <<>>] ELSE Step(MatchAll(p, text, 1))

\* extractedUseCases after the loop and the general fallback
extractedUseCases(found) ==
    IF Len(found.matches) = 0 THEN <<GeneralUseCase>>
    ELSE [i \in 1..Len(found.matches) |-> UseCaseOfMatch(found.matches[i])]

\* the strict parse applied to the raw text, without the cleanup
usecaseCandidateRaw(text) ==
    LET Candidate(parsed) ==
            IF parsed.ok THEN [val |-> parsed.val, stage |-> {"strict"}]
            ELSE [val |-> UseCases(Slice(extractedUseCases(PatternLoop(text, 1)), MaxUseCases)),
                  stage |-> {"extraction"}]
    IN  Candidate(JSONparse(text))

\* usecaseResponse after the inner try/catch of generate-usecases, and the
\* stages that produced it
usecaseCandidate(text) ==
    LET Extraction(found) ==
            [val |-> UseCases(Slice(extractedUseCases(found), MaxUseCases)),
             stage |-> {"extraction",
                        IF found.pattern = 0 THEN "general"
                        ELSE <<"pattern1", "pattern2", "pattern3">>[found.pattern]}]
        Candidate(parsed) ==
            IF parsed.ok THEN [val |-> parsed.val, stage |-> {"strict"}]
            ELSE Extraction(PatternLoop(text, 1))
    IN  Candidate(JSONparse(cleanedResult(text)))

\* reading usecaseResponse.usecases throws a TypeError
StructureCheckThrows(candidate) == candidate.t = "null"

\* !usecaseResponse.usecases || !Array.isArray(usecaseResponse.usecases)
StructureCheckFails(candidate) ==
    LET NoList(usecases) == Falsy(usecases) \/ ~IsArray(usecases)
    IN  NoList(Get(candidate, K("usecases")))

\* usecaseResponse after the structure check
usecaseResponse(candidate) ==
    IF StructureCheckFails(candidate) THEN UseCases(<<StructureUseCase>>) ELSE candidate

\* the verdict as it was matched, its case unchanged
CapitalizeKeep(w) == w

\* matchMatch[1].charAt(0).toUpperCase() + matchMatch[1].slice(1).toLowerCase()
Capitalize(w) ==
    IF w \in {"yes", "Yes", "YES"} THEN "Yes"
    ELSE IF w \in {"no", "No", "NO"} THEN "No"
    ELSE IF w \in {"partially", "Partially"} THEN "Partially"
    ELSE IF w \in {"maybe", "Maybe"} THEN "Maybe"
    ELSE "Unclear"

\* reason after the loop over reasonPatterns from pattern k on: the loop
\* stops at the first pattern with a reasonMatch
RECURSIVE ReasonLoop(_, _)
ReasonLoop(text, k) ==
    LET Step(reasonMatch) ==
            IF reasonMatch.found THEN Trim(reasonMatch.g1) ELSE ReasonLoop(text, k + 1)
    IN  IF k > 3 THEN text ELSE Step(StringMatch(ReasonKinds[k], text, 1))

\* reason without the clean-up of the whole response
fallbackReasonRaw(text) == ReasonLoop(text, 1)

\* reason after if (reason === result): the whole response, cleaned up
fallbackReason(text) ==
    LET Clean(reason) ==
            IF reason = text
            THEN Trim(RemoveJsonLike(RemoveClosingCodeBlocks(RemoveCodeBlocks(text, 1), 1), 1))
            ELSE reason
    IN  Clean(ReasonLoop(text, 1))

\* { match, reason, rating }
Evaluation(match, reason, rating) ==
    Obj(<<Member(K("match"), match), Member(K("reason"), reason), Member(K("rating"), rating)>>)

\* the evaluation built without the default for an empty reason
fallbackEvaluationBare(text) ==
    LET Of(matchMatch, reason, ratingMatch) ==
            Evaluation(IF matchMatch.found THEN S(Capitalize(matchMatch.g1[1]))
                       ELSE S("Analysis provided"),
                       Str(reason),
                       IF ratingMatch.found THEN Str(ratingMatch.g1)
                       ELSE S("See analysis for details"))
    IN  Of(StringMatch("match", text, 1), fallbackReason(text), StringMatch("rating", text, 1))

\* the evaluation built in the catch block of the Gemini variant
fallbackEvaluation(text) ==
    LET Of(matchMatch, reason, ratingMatch) ==
            Evaluation(IF matchMatch.found THEN S(Capitalize(matchMatch.g1[1]))
                       ELSE S("Analysis provided"),
                       IF reason # <<>> THEN Str(reason)
                       ELSE S("The AI provided an analysis but in an unexpected format."),
                       IF ratingMatch.found THEN Str(ratingMatch.g1)
                       ELSE S("See analysis for details"))
    IN  Of(StringMatch("match", text, 1), fallbackReason(text), StringMatch("rating", text, 1))

\* evaluation of the Gemini variant after the try/catch, and the stages that produced it
geminiEvaluation(text) ==
    LET Of(parsed) ==
            IF parsed.ok THEN [val |-> parsed.val, stage |-> {"strict"}]
            ELSE [val |-> fallbackEvaluation(text), stage |-> {"extraction"}]
    IN  Of(JSONparse(cleanedResult(text)))

\* String(x) for the values that reach JSON.parse or a string concatenation
ToText(x) ==
    IF x.t = "undefined" THEN <<"undefined">> ELSE IF x.t = "null" THEN <<"null">> ELSE x.v

\* evaluation of the OpenAI variant after the try/catch: JSON.parse(result)
\* converts its argument to a string first; no clean-up and no extraction
openAIEvaluation(content) ==
    LET Of(raw, parsed) ==
            IF parsed.ok THEN [val |-> parsed.val, stage |-> {"strict"}]
            ELSE [val |-> Evaluation(
                             S("Unable to determine"),
                             Str(<<"The AI response could not be parsed properly. Raw response: ">>
                                 \o raw),
                             S("N/A")),
                  stage |-> {"general"}]
        Parsed(raw) == Of(raw, JSONparse(raw))
    IN  Parsed(ToText(content))

(***************************************************************************)
(* The provider's reply envelope                                           *)
(***************************************************************************)
EvalOpenAI == "evaluate-prompt (OpenAI)"

EvalGemini == "evaluate-prompt (Gemini)"

GenUseCases == "generate-usecases"

Functions == {EvalOpenAI, EvalGemini, GenUseCases}

\* where the handler of function f reads the model text in the envelope
TextPath(f) ==
    IF f = EvalOpenAI THEN <<K("choices"), K("0"), K("message"), K("content")>>
    ELSE <<K("candidates"), K("0"), K("content"), K("parts"), K("0"), K("text")>>

\* x[k] for a value x that is neither null nor undefined
Prop(x, k) ==
    IF IsArray(x) THEN (IF k = K("0") /\ Len(x.v) >= 1 THEN x.v[1] ELSE Undefined)
    ELSE Get(x, k)

\* x.a.b.c (optional = FALSE) and x?.a?.b?.c (optional = TRUE)
RECURSIVE Walk(_, _, _)
Walk(x, path, optional) ==
    IF path = <<>> THEN [threw |-> FALSE, val |-> x]
    ELSE IF Nullish(x) THEN [threw |-> ~optional, val |-> Undefined]
    ELSE Walk(Prop(x, Head(path)), Tail(path), optional)

\* the model text as the handler of function f reads it in the envelope:
\* data.candidates?.[0]?.content?.parts?.[0]?.text in generate-usecases (only
\* the first step is not optional), data.candidates[0].content.parts[0].text
\* and data.choices[0].message.content in evaluate-prompt
ReadText(f, data) ==
    LET Optional(path) ==
            IF Nullish(data) THEN [threw |-> TRUE, val |-> Undefined]
            ELSE Walk(Prop(data, Head(path)), Tail(path), TRUE)
    IN  IF f = GenUseCases THEN Optional(TextPath(f)) ELSE Walk(data, TextPath(f), FALSE)

\* response.ok
Ok(status) == status \in 200..299

(***************************************************************************)
(* Responses                                                               *)
(***************************************************************************)
NoResponse == [status |-> 0, body |-> <<>>]

NoOutcome == [kind |-> "none", message |-> <<>>]

\* the body of the outer catch block
ErrorBody(f, message) ==
    IF f = GenUseCases
    THEN Obj(<<Member(K("error"), Str(message)),
               Member(K("usecases"), Arr(<<ErrorUseCase>>))>>)
    ELSE Obj(<<Member(K("error"), Str(message)),
               Member(K("match"), S("Error")),
               Member(K("reason"), Str(<<"An error occurred during evaluation: ">> \o message)),
               Member(K("rating"), S("N/A"))>>)

KeyMessage(f) ==
    IF f = EvalOpenAI THEN <<"OpenAI API key not configured">>
    ELSE <<"Gemini API key not configured">>

\* the message without the status code
StatusMessageNoCode(f, status, errorText) ==
    IF f = EvalOpenAI THEN <<"OpenAI API error">> ELSE <<"Gemini API error">>

\* the message of the error thrown for a reply that is not ok
StatusMessage(f, status, errorText) ==
    LET Message(code) ==
            IF f = EvalOpenAI THEN <<"OpenAI API error: ", code>>
            ELSE IF f = EvalGemini THEN <<"Gemini API error: ", code>>
            ELSE <<"Gemini API error: ", code, " - ">> \o errorText
    IN  Message(ToString(status))

\* the handler leaves through its outer catch block
Fail(kind, message) ==
    /\ response' = [status |-> 500, body |-> JSONstringify(ErrorBody(fn, message))]
    /\ outcome' = [kind |-> kind, message |-> message]
    /\ returned' = Undefined
    /\ stage' = {}
    /\ pc' = "done"

\* the handler returns the normalized value
Succeed(value, stages) ==
    /\ response' = [status |-> 200, body |-> JSONstringify(value)]
    /\ outcome' = [kind |-> "success", message |-> <<>>]
    /\ returned' = value
    /\ stage' = stages
    /\ pc' = "done"

(***************************************************************************)
(* The department context of generate-usecases                             *)
(***************************************************************************)
\* words of a department name
MaxWords == 3

\* the department of a request body: absent, or a name. No key of the table
\* begins in one of the words of a name and ends in the next one, so a key is
\* part of a name exactly if its words stand together in the name
Departments ==
    LET NameWords ==
            {"it", "IT", "sales", "Sales", "human", " ", "resources", "operations",
             "constructor", "__proto__", "team"}
    IN  {Undefined} \cup {Str(n) : n \in UNION {[1..k -> NameWords] : k \in 0..MaxWords}}

\* s.toLowerCase()
toLowerCase(s) ==
    [i \in 1..Len(s) |-> CASE s[i] = "IT" -> "it" [] s[i] = "Sales" -> "sales" [] OTHER -> s[i]]

\* s.includes(key)
includes(s, key) == \E i \in 0..(Len(s) - Len(key)) : SubSeq(s, i + 1, i + Len(key)) = key

\* the table of contexts, its keys in the order of the object literal
departmentContext ==
    <<Member(<<"marketing">>, Str(<<"Marketing departments focus on customer acquisition">>)),
      Member(<<"human", " ", "resources">>, Str(<<"HR departments handle recruitment">>)),
      Member(<<"finance">>, Str(<<"Finance departments manage budgeting">>)),
      Member(<<"operations">>, Str(<<"Operations departments oversee process optimization">>)),
      Member(<<"it">>, Str(<<"IT departments handle system administration">>)),
      Member(<<"sales">>, Str(<<"Sales departments focus on lead conversion">>)),
      Member(<<"customer", " ", "service">>, Str(<<"Customer service departments handle support ticket management">>))>>

\* the function Object, which every object literal inherits as constructor
ObjectConstructor == [t |-> "function", v |-> <<"Object">>]

\* the context chosen for the department of name name. departmentContext[k]
\* is the property of the table itself, else the property the table inherits
\* from Object.prototype (constructor and __proto__ are its only names in
\* lower case), else undefined; find gives the first key that is part of
\* deptKey, and the table read at the undefined it returns is undefined
DeptContext(name) ==
    LET Property(k, i) ==
            CASE i # 0 -> departmentContext[i].val
              [] i = 0 /\ k = K("constructor") -> ObjectConstructor
              [] i = 0 /\ k = K("__proto__") -> [t |-> "prototype", v |-> <<"Object">>]
              [] OTHER -> Undefined
        Find(deptKey) ==
            MinOr0({i \in 1..Len(departmentContext) : includes(deptKey, departmentContext[i].k)})
        Choose(exact, found) ==
            CASE ~Falsy(exact) -> exact
              [] Falsy(exact) /\ found # 0 -> departmentContext[found].val
              [] OTHER -> Str(<<"This department focuses on core business operations and workflows.">>)
        Lookup(deptKey) ==
            Choose(Property(deptKey, KeyIndex(departmentContext, deptKey)), Find(deptKey))
    IN  Lookup(toLowerCase(name))

(***************************************************************************)
(* The pages and the record store                                          *)
(***************************************************************************)

\* bounds: the backend calls one visit of a page starts, the inserts one
\* evaluation is followed up to, the rows of the store and the records of
\* a list of the history page
MaxEvaluations == 2
MaxInserts == 2
MaxRows == 2

\* the component state of a page as its useState calls create it, with the
\* calls it awaits (pending), the backend calls it started (started), the
\* body of the last one (invoked), the last call that returned (report),
\* the notifications of its last step (toasts), the records of the store it
\* lists (stored) and the rows inserted for each evaluation (inserts);
\* evaluation is the number of the evaluation held, 0 for null; of the
\* history page list["prompt_evaluations"] is evaluations (the ids of its
\* records), list["usecase_generations"] is usecaseGenerations, and selected
\* holds selectedEvaluation and selectedUsecase, 0 for null
useState ==
    [page |-> "none", user |-> FALSE,
     prompt |-> <<>>, technique |-> "", department |-> <<>>, task |-> <<>>,
     isEvaluating |-> FALSE, isGenerating |-> FALSE, isSaving |-> FALSE,
     evaluation |-> 0, evaluated |-> 0,
     list |-> [t \in {"prompt_evaluations", "usecase_generations"} |-> <<>>],
     selected |-> [t \in {"prompt_evaluations", "usecase_generations"} |-> 0],
     stored |-> [t \in {"prompt_evaluations", "usecase_generations"} |-> {}],
     inserts |-> [n \in 1..MaxEvaluations |-> 0],
     pending |-> {}, started |-> 0, invoked |-> [fn |-> "none"],
     report |-> [call |-> "none", table |-> "", id |-> 0, error |-> FALSE], toasts |-> {}]

(***************************************************************************)
(* The model texts and provider replies the model explores                 *)
(***************************************************************************)
\* tokens per free text
MaxFree == 2

\* items of a use-case list the model sends as JSON
MaxItems == 6

\* lines of a list text
MaxLines == 3

\* blocks of a block text
MaxBlocks == 6

\* labelled sentences of an evaluation written as prose
MaxSentences == 2

\* every sequence over set A of length 0..n
SeqsUpTo(A, n) == UNION {[1..k -> A] : k \in 0..n}

\* the parts, with sep between two of them
RECURSIVE Join(_, _)
Join(parts, sep) ==
    IF parts = <<>> THEN <<>>
    ELSE IF Len(parts) = 1 THEN Head(parts)
    ELSE Head(parts) \o sep \o Join(Tail(parts), sep)

\* a different word and a different digit per position
Word(i) ==
    IF i <= 8 THEN <<"alpha", "beta", "gamma", "delta", "epsilon", "zeta", "eta", "theta">>[i]
    ELSE "omega"

Digit(i) == IF i <= 9 THEN <<"1", "2", "3", "4", "5", "6", "7", "8", "9">>[i] ELSE "0"

\* part i of a text a model writes: a line of a list, a block of several
\* lines, or a sentence of an evaluation
PartOf(kind, i) ==
    IF kind = "numbered" THEN <<Digit(i), ".", SP, Word(i), SP, "item">>
    ELSE IF kind = "bulleted" THEN <<"-", SP, Word(i), SP, "item">>
    ELSE IF kind = "labelled" THEN <<"idea", SP, Digit(i), ":", SP, Word(i), SP, "item">>
    ELSE IF kind = "plain" THEN <<Word(i), SP, "prose">>
    ELSE IF kind = "blank" THEN <<>>
    ELSE IF kind = "block"
    THEN <<"Use Case", SP, Digit(i), ":", SP, Word(i), NL, "body", SP, Word(i), NL>>
    ELSE IF kind = "paragraph" THEN <<Word(i), SP, "prose", NL, NL>>
    ELSE IF kind = "match" THEN <<"Match", ":", SP, "YES">>
    ELSE IF kind = "does" THEN <<"Does", SP, "it", SP, "match", "?", SP, "no">>
    ELSE IF kind = "rating"
    THEN <<QUOTE, "rating", QUOTE, ":", SP, QUOTE, "7", "/", "1", "0", SP, "good", QUOTE>>
    ELSE IF kind = "score" THEN <<"score", ":", SP, "8", ".", "5">>
    ELSE IF kind = "reason" THEN <<"Reason", ":", SP, "two", SP, "examples">>
    ELSE IF kind = "analysis" THEN <<"analysis", ":", SP, "{", "x", "}">>
    ELSE <<"fine", SP, "{", "x", "}">>

\* the texts of up to n parts of the given kinds
Composed(kinds, n, sep) ==
    {Join([i \in 1..Len(ks) |-> PartOf(ks[i], i)], sep) : ks \in SeqsUpTo(kinds, n)}

\* item i of a use-case list: complete, or without its benefits
ItemOf(kind, i) ==
    Obj(<<Member(K("title"), S(Word(i))), Member(K("description"), Str(<<Word(i), SP, "item">>))>>
        \o (IF kind = "full" THEN <<Member(K("benefits"), S("faster"))>> ELSE <<>>)
        \o <<Member(K("implementation"), S("soon"))>>)

\* a field of an evaluation object: a string, a number or absent
FieldOf(name, choice, text) ==
    IF choice = "string" THEN <<Member(K(name), Str(text))>>
    ELSE IF choice = "number" THEN <<Member(K(name), Num(<<"7">>))>>
    ELSE <<>>

\* the values a model writes as JSON: use-case lists, evaluation objects
\* and values of other shapes
JsonValues ==
    {UseCases([i \in 1..Len(kinds) |-> ItemOf(kinds[i], i)]) :
        kinds \in SeqsUpTo({"full", "no benefits"}, MaxItems)}
    \cup {Obj(FieldOf("match", m, <<"YES">>) \o FieldOf("reason", r, <<"two", SP, "examples">>)
              \o FieldOf("rating", g, <<"7", "/", "1", "0">>)) :
            m \in {"string", "number", "absent"}, r \in {"string", "number", "absent"},
            g \in {"string", "number", "absent"}}
    \cup {Null, Num(<<"7">>), Num(<<"0">>), S("alpha"), Bool("true"), Arr(<<>>),
          Arr(<<S("alpha")>>), Obj(<<Member(K("usecases"), S("alpha"))>>),
          Obj(<<Member(K("usecases"), Null)>>), UseCases(<<Null>>), UseCases(<<S("alpha")>>),
          Obj(<<Member(K("title"), S("alpha"))>>)}

\* the ways a model dresses its JSON
Wrap(kind, json) ==
    IF kind = "bare" THEN json
    ELSE IF kind = "fenced" THEN <<BQ, BQ, BQ, "json", NL>> \o json \o <<NL, BQ, BQ, BQ>>
    ELSE IF kind = "prose" THEN <<"Here", SP, "it", SP, "is", ":", NL>> \o json \o <<NL, "Thanks", ".">>
    ELSE <<"Format", SP, "{", "x", "}", ":", NL>> \o json

JsonTexts ==
    {Wrap(w, JSONstringify(x)) : w \in {"bare", "fenced", "prose", "braced prose"}, x \in JsonValues}

\* the texts a model may answer with
Texts ==
    SeqsUpTo({"{", "}", QUOTE, ":", "null", "1", NL, "idea"}, MaxFree)
    \cup Composed({"numbered", "bulleted", "labelled", "plain", "blank"}, MaxLines, <<NL>>)
    \cup Composed({"block", "paragraph"}, MaxBlocks, <<>>)
    \cup Composed({"match", "does", "rating", "score", "reason", "analysis", "prose"},
                  MaxSentences, <<NL>>)
    \cup JsonTexts

\* the envelope whose text path is cut after d steps, or complete with leaf at its end
RECURSIVE Nest(_, _, _)
Nest(path, d, leaf) ==
    IF path = <<>> THEN leaf
    ELSE IF d = 0 THEN (IF Head(path) = K("0") THEN Arr(<<>>) ELSE Obj(<<>>))
    ELSE IF Head(path) = K("0") THEN Arr(<<Nest(Tail(path), d - 1, leaf)>>)
    ELSE Obj(<<Member(Head(path), Nest(Tail(path), d - 1, leaf))>>)

\* the envelopes the provider may send to function f: null, cut somewhere
\* on the text path, with a null text, and complete
Envelopes(f) ==
    LET At(path) ==
            {Null, Nest(path, Len(path), Null)}
            \cup {Nest(path, d, Undefined) : d \in 0..(Len(path) - 1)}
            \cup {Nest(path, Len(path), Str(t)) : t \in Texts}
    IN  At(TextPath(f))

Reply(net, status, json, data, errorText) ==
    [net |-> net, status |-> status, json |-> json, data |-> data, errorText |-> errorText]

NoReply == Reply(FALSE, 0, FALSE, Null, <<>>)

\* what the provider can answer to function f: no answer at all, an error
\* status with a body, a success status with a body that is not JSON, and a
\* success status with an envelope
Replies(f) ==
    {NoReply}
    \cup {Reply(TRUE, st, FALSE, Null, e) : st \in {429, 500}, e \in {<<>>, <<"quota exceeded">>}}
    \cup {Reply(TRUE, 200, FALSE, Null, <<>>)}
    \cup {Reply(TRUE, 200, TRUE, d, <<>>) : d \in Envelopes(f)}

NoRequest == [method |-> "none", body |-> "none"]

\* the requests an isolate handles at the same time
Requests == {"first", "second"}

\* the local state of a handler that has no request
IdleHandler ==
    [fn |-> "none", pc |-> "idle", req |-> NoRequest, reply |-> NoReply, returned |-> Undefined,
     response |-> NoResponse]

(***************************************************************************)
(* The handlers                                                            *)
(***************************************************************************)
Init ==
    /\ apiKey \in BOOLEAN
    /\ fn = "none"
    /\ pc = "idle"
    /\ req = NoRequest
    /\ department = Undefined
    /\ deptContext = Undefined
    /\ reply = NoReply
    /\ result = Undefined
    /\ returned = Undefined
    /\ stage = {}
    /\ outcome = NoOutcome
    /\ response = NoResponse
    /\ calls = 0
    /\ handlers = [i \in Requests |-> IdleHandler]
    /\ store = [rows |-> {}, actor |-> "nobody", seen |-> {}, error |-> FALSE]
    /\ ui = useState

\* a request reaches one of the functions; its body is JSON with the fields
\* the handler reads (for generate-usecases a department), JSON without
\* them, or not JSON
Arrive ==
    /\ pc = "idle"
    /\ \E f \in Functions, m \in {"POST", "OPTIONS"}, b \in {"valid", "missing", "unreadable"} :
          /\ fn' = f
          /\ req' = [method |-> m, body |-> b]
          /\ department' = IF f = GenUseCases /\ b = "valid" THEN Str(<<"Sales">>) ELSE Undefined
    /\ pc' = "received"
    /\ UNCHANGED <<apiKey, deptContext, reply, result, returned, stage, outcome, response, calls,
                    handlers, store, ui>>

\* the handler without its check of the key: the call is made with no key
HandleRequestNoKeyCheck ==
    /\ pc = "received"
    /\ IF req.method = "OPTIONS"
       THEN /\ response' = [status |-> 200, body |-> <<>>]
            /\ outcome' = [kind |-> "preflight", message |-> <<>>]
            /\ pc' = "done"
            /\ UNCHANGED <<deptContext, returned, stage, calls>>
       ELSE IF req.body = "unreadable"
       THEN Fail("request", <<"Unexpected end of JSON input">>) /\ UNCHANGED <<deptContext, calls>>
       ELSE IF fn = GenUseCases /\ req.body = "missing"
       THEN Fail("request", <<"Cannot read properties of undefined (reading 'toLowerCase')">>)
            /\ UNCHANGED <<deptContext, calls>>
       ELSE /\ deptContext' = IF fn = GenUseCases THEN DeptContext(department.v) ELSE Undefined
            /\ calls' = calls + 1
            /\ pc' = "awaiting"
            /\ UNCHANGED <<returned, stage, outcome, response>>
    /\ UNCHANGED <<fn, apiKey, req, department, reply, result, handlers, store, ui>>

\* serve handler up to the awaited fetch
HandleRequest ==
    /\ pc = "received"
    /\ IF req.method = "OPTIONS"
       THEN /\ response' = [status |-> 200, body |-> <<>>]
            /\ outcome' = [kind |-> "preflight", message |-> <<>>]
            /\ pc' = "done"
            /\ UNCHANGED <<deptContext, returned, stage, calls>>
       ELSE IF req.body = "unreadable"
       THEN Fail("request", <<"Unexpected end of JSON input">>) /\ UNCHANGED <<deptContext, calls>>
       ELSE IF ~apiKey
       THEN Fail("configuration", KeyMessage(fn)) /\ UNCHANGED <<deptContext, calls>>
       ELSE IF fn = GenUseCases /\ req.body = "missing"
       THEN Fail("request", <<"Cannot read properties of undefined (reading 'toLowerCase')">>)
            /\ UNCHANGED <<deptContext, calls>>
       ELSE /\ deptContext' = IF fn = GenUseCases THEN DeptContext(department.v) ELSE Undefined
            /\ calls' = calls + 1
            /\ pc' = "awaiting"
            /\ UNCHANGED <<returned, stage, outcome, response>>
    /\ UNCHANGED <<fn, apiKey, req, department, reply, result, handlers, store, ui>>

\* the provider answers the pending call
ProviderReplies ==
    /\ pc = "awaiting"
    /\ reply' \in Replies(fn)
    /\ pc' = "replied"
    /\ UNCHANGED <<fn, apiKey, req, department, deptContext, result, returned, stage, outcome,
                    response, calls, handlers, store, ui>>

\* generate-usecases from the text read in the envelope to the response
HandleUseCases(text) ==
    LET Respond(candidate) ==
            IF StructureCheckThrows(candidate.val)
            THEN Fail("normalization", <<"Cannot read properties of null (reading 'usecases')">>)
            ELSE Succeed(usecaseResponse(candidate.val),
                         candidate.stage
                         \cup (IF StructureCheckFails(candidate.val) THEN {"structure"} ELSE {}))
    IN  IF text.threw
        THEN Fail("envelope", <<"Cannot read properties of null (reading 'candidates')">>)
        ELSE IF Falsy(text.val)
        THEN Fail("envelope", <<"Invalid response structure from Gemini API">>)
        ELSE Respond(usecaseCandidate(text.val.v))

\* evaluate-prompt (Gemini variant) from the text read in the envelope to the
\* response; a text that is not a string throws in the try block and again
\* in its catch block
HandleEvaluation(text) ==
    LET Respond(evaluation) == Succeed(evaluation.val, evaluation.stage)
    IN  IF text.threw \/ ~IsString(text.val)
        THEN Fail("envelope", <<"Cannot read properties of undefined">>)
        ELSE Respond(geminiEvaluation(text.val.v))

\* evaluate-prompt (OpenAI variant) from the content read in the envelope to the response
HandleOpenAIEvaluation(content) ==
    LET Respond(evaluation) == Succeed(evaluation.val, evaluation.stage)
    IN  IF content.threw
        THEN Fail("envelope", <<"Cannot read properties of undefined">>)
        ELSE Respond(openAIEvaluation(content.val))

\* the handler with one retry: after a failed call it calls the provider again
HandleReplyRetry ==
    LET Text(text) ==
            /\ result' = text.val
            /\ IF fn = GenUseCases THEN HandleUseCases(text)
               ELSE IF fn = EvalGemini THEN HandleEvaluation(text)
               ELSE HandleOpenAIEvaluation(text)
    IN  /\ pc = "replied"
        /\ IF (~reply.net \/ ~Ok(reply.status)) /\ calls < 2
           THEN /\ calls' = calls + 1
                /\ pc' = "awaiting"
                /\ UNCHANGED <<result, returned, stage, outcome, response>>
           ELSE /\ IF ~reply.net
                   THEN Fail("network", <<"error sending request">>) /\ UNCHANGED result
                   ELSE IF ~Ok(reply.status)
                   THEN Fail("status", StatusMessage(fn, reply.status, reply.errorText))
                        /\ UNCHANGED result
                   ELSE IF ~reply.json
                   THEN Fail("envelope", <<"Unexpected token in JSON">>) /\ UNCHANGED result
                   ELSE Text(ReadText(fn, reply.data))
                /\ UNCHANGED calls
        /\ UNCHANGED <<fn, apiKey, req, department, deptContext, reply, handlers, store, ui>>

\* serve handler after the awaited fetch; result is the model text read in the envelope
HandleReply ==
    LET Text(text) ==
            /\ result' = text.val
            /\ IF fn = GenUseCases THEN HandleUseCases(text)
               ELSE IF fn = EvalGemini THEN HandleEvaluation(text)
               ELSE HandleOpenAIEvaluation(text)
    IN  /\ pc = "replied"
        /\ IF ~reply.net
           THEN Fail("network", <<"error sending request">>) /\ UNCHANGED result
           ELSE IF ~Ok(reply.status)
           THEN Fail("status", StatusMessage(fn, reply.status, reply.errorText))
                /\ UNCHANGED result
           ELSE IF ~reply.json
           THEN Fail("envelope", <<"Unexpected token in JSON">>) /\ UNCHANGED result
           ELSE Text(ReadText(fn, reply.data))
        /\ UNCHANGED <<fn, apiKey, req, department, deptContext, reply, calls, handlers, store, ui>>

\* the request is over; the isolate waits for the next one
NextRequest ==
    /\ pc = "done"
    /\ fn' = "none"
    /\ pc' = "idle"
    /\ req' = NoRequest
    /\ department' = Undefined
    /\ deptContext' = Undefined
    /\ reply' = NoReply
    /\ result' = Undefined
    /\ returned' = Undefined
    /\ stage' = {}
    /\ outcome' = NoOutcome
    /\ response' = NoResponse
    /\ calls' = 0
    /\ UNCHANGED <<apiKey, handlers, store, ui>>

Next == Arrive \/ HandleRequest \/ ProviderReplies \/ HandleReply \/ NextRequest

Spec == Init /\ [][Next]_vars

\* a request with any department has reached generate-usecases
PromptInit ==
    /\ apiKey \in BOOLEAN
    /\ fn = GenUseCases
    /\ pc = "received"
    /\ department \in Departments
    /\ req = [method |-> "POST", body |-> IF department = Undefined THEN "missing" ELSE "valid"]
    /\ deptContext = Undefined
    /\ reply = NoReply
    /\ result = Undefined
    /\ returned = Undefined
    /\ stage = {}
    /\ outcome = NoOutcome
    /\ response = NoResponse
    /\ calls = 0
    /\ handlers = [i \in Requests |-> IdleHandler]
    /\ store = [rows |-> {}, actor |-> "nobody", seen |-> {}, error |-> FALSE]
    /\ ui = useState

\* generate-usecases from the request to the awaited fetch, for every department
PromptSpec == PromptInit /\ [][HandleRequest]_vars

(***************************************************************************)
(* Requests handled at the same time                                       *)
(*                                                                         *)
(* An isolate runs one handler per request. The handlers share the module  *)
(* scope, which holds the key and the headers, both constants; every other *)
(* name of the source is local to one call of the handler. A handler gives *)
(* way to the others where it awaits: the body of the request and the      *)
(* reply of the provider.                                                  *)
(***************************************************************************)
\* what the handler of function f does with a request before its fetch:
\* it answers (done) or it calls the provider
BeforeFetch(f, key, request) ==
    LET Failed(message) ==
            [done |-> TRUE,
             response |-> [status |-> 500, body |-> JSONstringify(ErrorBody(f, message))]]
    IN  CASE request.method = "OPTIONS"
               -> [done |-> TRUE, response |-> [status |-> 200, body |-> <<>>]]
          [] request.method # "OPTIONS" /\ request.body = "unreadable"
               -> Failed(<<"Unexpected end of JSON input">>)
          [] request.method # "OPTIONS" /\ request.body # "unreadable" /\ ~key
               -> Failed(KeyMessage(f))
          [] /\ request.method # "OPTIONS" /\ request.body = "missing" /\ key
             /\ f = GenUseCases
               -> Failed(<<"Cannot read properties of undefined (reading 'toLowerCase')">>)
          [] OTHER -> [done |-> FALSE, response |-> NoResponse]

\* what the handler of function f answers to reply r of the provider: its
\* response and the value it returns
AfterFetch(f, r) ==
    LET Failed(message) ==
            [response |-> [status |-> 500, body |-> JSONstringify(ErrorBody(f, message))],
             returned |-> Undefined]
        Succeeded(value) ==
            [response |-> [status |-> 200, body |-> JSONstringify(value)], returned |-> value]
        UseCasesOf(candidate) ==
            IF StructureCheckThrows(candidate.val)
            THEN Failed(<<"Cannot read properties of null (reading 'usecases')">>)
            ELSE Succeeded(usecaseResponse(candidate.val))
        EvaluationOf(evaluation) == Succeeded(evaluation.val)
        Text(text) ==
            CASE f = GenUseCases /\ text.threw
                   -> Failed(<<"Cannot read properties of null (reading 'candidates')">>)
              [] f = GenUseCases /\ ~text.threw /\ Falsy(text.val)
                   -> Failed(<<"Invalid response structure from Gemini API">>)
              [] f = GenUseCases /\ ~text.threw /\ ~Falsy(text.val)
                   -> UseCasesOf(usecaseCandidate(text.val.v))
              [] f = EvalGemini /\ (text.threw \/ ~IsString(text.val))
                   -> Failed(<<"Cannot read properties of undefined">>)
              [] f = EvalGemini /\ ~text.threw /\ IsString(text.val)
                   -> EvaluationOf(geminiEvaluation(text.val.v))
              [] f = EvalOpenAI /\ text.threw
                   -> Failed(<<"Cannot read properties of undefined">>)
              [] OTHER -> EvaluationOf(openAIEvaluation(text.val))
    IN  CASE ~r.net -> Failed(<<"error sending request">>)
          [] r.net /\ ~Ok(r.status) -> Failed(StatusMessage(f, r.status, r.errorText))
          [] r.net /\ Ok(r.status) /\ ~r.json -> Failed(<<"Unexpected token in JSON">>)
          [] OTHER -> Text(ReadText(f, r.data))

\* some of the replies of Replies(f): no answer, an error status, an
\* envelope without candidates, and envelopes with four model texts
SomeReplies(f) ==
    LET Envelope(t) == Nest(TextPath(f), Len(TextPath(f)), Str(t))
    IN  {NoReply,
         Reply(TRUE, 500, FALSE, Null, <<"quota exceeded">>),
         Reply(TRUE, 200, TRUE, Obj(<<>>), <<>>)}
        \cup {Reply(TRUE, 200, TRUE, Envelope(t), <<>>) :
                 t \in {<<"null">>, <<"{", "}">>, PartOf("match", 1), PartOf("numbered", 1)}}

\* the sequential handler does not move
Waiting ==
    UNCHANGED <<fn, apiKey, pc, req, department, deptContext, reply, result, returned, stage,
                outcome, response, calls>>

\* a request reaches a handler that has none or has answered its last one;
\* the call starts with fresh locals
ArriveAt(i) ==
    /\ handlers[i].pc \in {"idle", "done"}
    /\ \E f \in Functions, m \in {"POST", "OPTIONS"}, b \in {"valid", "missing", "unreadable"} :
          handlers' = [handlers EXCEPT ![i] = [IdleHandler EXCEPT !.fn = f, !.pc = "received",
                                                                  !.req = [method |-> m, body |-> b]]]
    /\ Waiting /\ UNCHANGED <<store, ui>>

\* serve handler of request i up to the awaited fetch
HandleRequestOf(i) ==
    LET Then(a) ==
            handlers' = [handlers EXCEPT ![i].pc = IF a.done THEN "done" ELSE "awaiting",
                                         ![i].response = a.response]
    IN  /\ handlers[i].pc = "received"
        /\ Then(BeforeFetch(handlers[i].fn, apiKey, handlers[i].req))
        /\ Waiting /\ UNCHANGED <<store, ui>>

\* the provider answers the pending call of request i
ProviderRepliesTo(i) ==
    /\ handlers[i].pc = "awaiting"
    /\ \E r \in SomeReplies(handlers[i].fn) :
          handlers' = [handlers EXCEPT ![i].pc = "replied", ![i].reply = r]
    /\ Waiting /\ UNCHANGED <<store, ui>>

\* the handler in which the reply is a name of the module scope: it answers
\* with the reply that arrived last, which may be the reply to another request
HandleReplyShared(i) ==
    LET Then(a) ==
            handlers' = [handlers EXCEPT ![i].pc = "done", ![i].response = a.response,
                                         ![i].returned = a.returned]
        Last(others) ==
            IF others = {} THEN handlers[i].reply
            ELSE handlers[CHOOSE j \in others : TRUE].reply
    IN  /\ handlers[i].pc = "replied"
        /\ Then(AfterFetch(handlers[i].fn,
                           Last({j \in Requests \ {i} : handlers[j].pc = "replied"})))
        /\ Waiting /\ UNCHANGED <<store, ui>>

\* the handler with a pattern of the module scope that keeps its position
\* from one run to the next: once another request has been answered, the
\* normalizer reads the model text from its second token on
HandleReplyStateful(i) ==
    LET Then(a) ==
            handlers' = [handlers EXCEPT ![i].pc = "done", ![i].response = a.response,
                                         ![i].returned = a.returned]
        Rest(r, text) ==
            IF text.threw \/ ~IsString(text.val) \/ text.val.v = <<>> THEN r
            ELSE [r EXCEPT !.data = Nest(TextPath(handlers[i].fn), Len(TextPath(handlers[i].fn)),
                                         Str(Tail(text.val.v)))]
        Read(r) ==
            IF r.net /\ r.json /\ \E j \in Requests \ {i} : handlers[j].pc = "done"
            THEN Rest(r, ReadText(handlers[i].fn, r.data))
            ELSE r
    IN  /\ handlers[i].pc = "replied"
        /\ Then(AfterFetch(handlers[i].fn, Read(handlers[i].reply)))
        /\ Waiting /\ UNCHANGED <<store, ui>>

\* serve handler of request i after the awaited fetch
HandleReplyOf(i) ==
    LET Then(a) ==
            handlers' = [handlers EXCEPT ![i].pc = "done", ![i].response = a.response,
                                         ![i].returned = a.returned]
    IN  /\ handlers[i].pc = "replied"
        /\ Then(AfterFetch(handlers[i].fn, handlers[i].reply))
        /\ Waiting /\ UNCHANGED <<store, ui>>

ConcurrentNext ==
    \E i \in Requests :
        ArriveAt(i) \/ HandleRequestOf(i) \/ ProviderRepliesTo(i) \/ HandleReplyOf(i)

\* the handlers of two requests, their steps interleaved at every await
ConcurrentSpec == Init /\ [][ConcurrentNext]_vars

(***************************************************************************)
(* The record store: the tables prompt_evaluations and usecase_generations *)
(* under row level security. A row is [table, id, user_id, text]; a        *)
(* statement runs for the signed-in user u, whose identity is auth.uid().  *)
(* store.actor is the user of the last statement, store.seen the rows it   *)
(* returned and store.error whether it was rejected.                       *)
(***************************************************************************)

\* SELECT: the policy FOR SELECT USING (auth.uid() = user_id) filters the rows
Select(u, table) ==
    /\ store' = [store EXCEPT !.actor = u, !.error = FALSE,
                   !.seen = {r \in store.rows : r.table = table /\ u = r.user_id}]
    /\ Waiting /\ UNCHANGED <<handlers, ui>>

\* INSERT of a row with the user_id the client sends: the policy FOR INSERT
\* WITH CHECK (auth.uid() = user_id) rejects the statement otherwise; the id
\* is the generated primary key; the store holds up to MaxRows rows
Insert(u, table, user_id, text) ==
    LET free == {i \in 1..MaxRows : \A r \in store.rows : r.table = table => r.id # i}
        row(i) == [table |-> table, id |-> i, user_id |-> user_id, text |-> text]
    IN  /\ Cardinality(store.rows) < MaxRows
        /\ store' = [store EXCEPT !.actor = u, !.seen = {}, !.error = (u # user_id),
                       !.rows = IF u = user_id
                                THEN @ \cup {row(CHOOSE i \in free : \A j \in free : i <= j)}
                                ELSE @]
        /\ Waiting /\ UNCHANGED <<handlers, ui>>

\* a mutant of Update: the USING expression is not applied to the new row
UpdateUnchecked(u, table, id, user_id, text) ==
    LET old == {r \in store.rows : r.table = table /\ r.id = id /\ u = r.user_id}
        new == {[r EXCEPT !.user_id = user_id, !.text = text] : r \in old}
    IN  /\ store' = [store EXCEPT !.actor = u, !.seen = {}, !.error = FALSE,
                       !.rows = (@ \ old) \cup new]
        /\ Waiting /\ UNCHANGED <<handlers, ui>>

\* UPDATE ... WHERE id = ...: the policy FOR UPDATE USING (auth.uid() =
\* user_id) filters the rows to update and, the policy having no WITH CHECK,
\* is also the check of the new row
Update(u, table, id, user_id, text) ==
    LET old == {r \in store.rows : r.table = table /\ r.id = id /\ u = r.user_id}
        new == {[r EXCEPT !.user_id = user_id, !.text = text] : r \in old}
        rejected == \E r \in new : u # r.user_id
    IN  /\ store' = [store EXCEPT !.actor = u, !.seen = {}, !.error = rejected,
                       !.rows = IF rejected THEN @ ELSE (@ \ old) \cup new]
        /\ Waiting /\ UNCHANGED <<handlers, ui>>

\* DELETE ... WHERE id = ...: the policy FOR DELETE USING (auth.uid() =
\* user_id) filters the rows to delete
Delete(u, table, id) ==
    /\ store' = [store EXCEPT !.actor = u, !.seen = {}, !.error = FALSE,
                   !.rows = {r \in @ : ~(r.table = table /\ r.id = id /\ u = r.user_id)}]
    /\ Waiting /\ UNCHANGED <<handlers, ui>>

\* the statements of two signed-in users on the two tables, in any order
StoreSpec ==
    Init /\ [][\E u \in {"ann", "bob"}, table \in {"prompt_evaluations", "usecase_generations"} :
                 \/ Select(u, table)
                 \/ \E id \in 1..MaxRows : Delete(u, table, id)
                 \/ \E user_id \in {"ann", "bob"}, text \in {"first", "edited"} :
                       \/ Insert(u, table, user_id, text)
                       \/ \E id \in 1..MaxRows : Update(u, table, id, user_id, text)]_vars

(***************************************************************************)
(* The pages. A visit opens one page with the inputs the user typed; a     *)
(* handler runs to its next await, where the call it awaits is pending,    *)
(* and goes on when the call returns.                                      *)
(***************************************************************************)

\* the user opens a page: the evaluator or the generator with the typed
\* inputs, or the history, which fetches the records of a signed-in user
Open(page) ==
    LET Typed == {<<>>, <<SP>>, <<"text">>, <<SP, "text", NL>>}
        Ids(n) == [i \in 1..n |-> i]
    IN  /\ ui.page = "none"
        /\ \E signedIn \in BOOLEAN :
              CASE page = "evaluator" ->
                     \E p \in Typed, t \in {"", "few-shot"} :
                        ui' = [useState EXCEPT !.page = page, !.user = signedIn,
                                               !.prompt = p, !.technique = t]
                [] page = "generator" ->
                     \E d \in Typed, t \in Typed :
                        ui' = [useState EXCEPT !.page = page, !.user = signedIn,
                                               !.department = d, !.task = t]
                [] OTHER ->
                     \E n \in 0..MaxRows, k \in 0..MaxRows :
                        /\ signedIn \/ (n = 0 /\ k = 0)
                        /\ ui' = [useState EXCEPT
                                    !.page = page, !.user = signedIn,
                                    !.list = [t \in DOMAIN @ |->
                                                IF t = "prompt_evaluations" THEN Ids(n) ELSE Ids(k)],
                                    !.stored = [t \in DOMAIN @ |->
                                                  IF t = "prompt_evaluations" THEN 1..n ELSE 1..k]]
        /\ Waiting /\ UNCHANGED <<handlers, store>>

\* a mutant of handleEvaluate: the prompt is sent as typed
handleEvaluateAsTyped ==
    /\ ui.page = "evaluator"
    /\ ~(ui.isEvaluating \/ Trim(ui.prompt) = <<>> \/ ui.technique = "")
    /\ ui.started < MaxEvaluations
    /\ ui' = [ui EXCEPT !.isEvaluating = TRUE, !.evaluation = 0, !.toasts = {},
                        !.started = @ + 1,
                        !.pending = @ \cup {[call |-> "evaluate", table |-> "", id |-> 0]},
                        !.invoked = [fn |-> "evaluate-prompt", prompt |-> ui.prompt,
                                     selectedTechnique |-> ui.technique]]
    /\ Waiting /\ UNCHANGED <<handlers, store>>

\* the Evaluate Prompt button, enabled unless isEvaluating || !prompt.trim()
\* || !technique, calls handleEvaluate, which runs to the await of invoke
handleEvaluate ==
    /\ ui.page = "evaluator"
    /\ ~(ui.isEvaluating \/ Trim(ui.prompt) = <<>> \/ ui.technique = "")
    /\ ui.started < MaxEvaluations
    /\ ui' = CASE Trim(ui.prompt) = <<>> -> [ui EXCEPT !.toasts = {"Error"}]
               [] ui.technique = "" -> [ui EXCEPT !.toasts = {"Error"}]
               [] OTHER ->
                    [ui EXCEPT !.isEvaluating = TRUE, !.evaluation = 0, !.toasts = {},
                               !.started = @ + 1,
                               !.pending = @ \cup {[call |-> "evaluate", table |-> "", id |-> 0]},
                               !.invoked = [fn |-> "evaluate-prompt", prompt |-> Trim(ui.prompt),
                                            selectedTechnique |-> ui.technique]]
    /\ Waiting /\ UNCHANGED <<handlers, store>>

\* a mutant of EvaluateReturns: the busy flag is cleared at the end of the
\* try block and not in a finally block
EvaluateReturnsNoFinally ==
    LET call == [call |-> "evaluate", table |-> "", id |-> 0]
        n == ui.evaluated + 1
    IN  /\ call \in ui.pending
        /\ \E error \in BOOLEAN :
              ui' = CASE error ->
                         [ui EXCEPT !.pending = @ \ {call}, !.toasts = {"Evaluation Failed"},
                                    !.report = call @@ [error |-> TRUE]]
                      [] ~error /\ ~ui.user ->
                         [ui EXCEPT !.pending = @ \ {call}, !.evaluation = n, !.evaluated = n,
                                    !.toasts = {"Evaluation Complete"}, !.isEvaluating = FALSE,
                                    !.report = call @@ [error |-> FALSE]]
                      [] OTHER ->
                         [ui EXCEPT !.pending = (@ \ {call}) \cup
                                       {[call |-> "autosave", table |-> "prompt_evaluations",
                                         id |-> n]},
                                    !.evaluation = n, !.evaluated = n, !.toasts = {},
                                    !.report = call @@ [error |-> FALSE]]
        /\ Waiting /\ UNCHANGED <<handlers, store>>

\* the invoke that handleEvaluate awaits returns: an error is thrown to the
\* catch block; data becomes the evaluation and saveEvaluation is called,
\* which returns at once without a user and else awaits the insert
EvaluateReturns ==
    LET call == [call |-> "evaluate", table |-> "", id |-> 0]
        n == ui.evaluated + 1
    IN  /\ call \in ui.pending
        /\ \E error \in BOOLEAN :
              ui' = CASE error ->
                         [ui EXCEPT !.pending = @ \ {call}, !.toasts = {"Evaluation Failed"},
                                    !.isEvaluating = FALSE,
                                    !.report = call @@ [error |-> TRUE]]
                      [] ~error /\ ~ui.user ->
                         [ui EXCEPT !.pending = @ \ {call}, !.evaluation = n, !.evaluated = n,
                                    !.toasts = {"Evaluation Complete"}, !.isEvaluating = FALSE,
                                    !.report = call @@ [error |-> FALSE]]
                      [] OTHER ->
                         [ui EXCEPT !.pending = (@ \ {call}) \cup
                                       {[call |-> "autosave", table |-> "prompt_evaluations",
                                         id |-> n]},
                                    !.evaluation = n, !.evaluated = n, !.toasts = {},
                                    !.report = call @@ [error |-> FALSE]]
        /\ Waiting /\ UNCHANGED <<handlers, store>>

\* the insert that saveEvaluation awaits returns, to the automatic save of
\* handleEvaluate (caller "autosave") or to handleManualSave (caller
\* "manualsave"): saveEvaluation catches an error, shows "Save Failed" and
\* returns, and its caller goes on to its own notification and finally block
SaveReturns(caller) ==
    \E call \in {c \in ui.pending : c.call = caller}, error \in BOOLEAN :
       /\ ui' = [ui EXCEPT
                   !.pending = @ \ {call},
                   !.inserts[call.id] = IF error THEN @ ELSE @ + 1,
                   !.toasts = (IF error THEN {"Save Failed"} ELSE {}) \cup
                              {IF caller = "autosave" THEN "Evaluation Complete" ELSE "Saved"},
                   !.isEvaluating = IF caller = "autosave" THEN FALSE ELSE @,
                   !.isSaving = IF caller = "manualsave" THEN FALSE ELSE @,
                   !.report = call @@ [error |-> error]]
       /\ Waiting /\ UNCHANGED <<handlers, store>>

\* the Save to History button, rendered with an evaluation and enabled unless
\* isSaving, calls handleManualSave, which runs to the await of the insert
handleManualSave ==
    LET inFlight == {c \in ui.pending : c.table = "prompt_evaluations" /\ c.id = ui.evaluation}
    IN  /\ ui.page = "evaluator"
        /\ ui.evaluation # 0
        /\ ~ui.isSaving
        /\ ui.inserts[ui.evaluation] + Cardinality(inFlight) < MaxInserts
        /\ ui' = IF ui.evaluation = 0 \/ ~ui.user THEN [ui EXCEPT !.toasts = {}]
                 ELSE [ui EXCEPT !.isSaving = TRUE, !.toasts = {},
                                 !.pending = @ \cup {[call |-> "manualsave",
                                                      table |-> "prompt_evaluations",
                                                      id |-> ui.evaluation]}]
        /\ Waiting /\ UNCHANGED <<handlers, store>>

\* the Generate button, enabled unless isGenerating || !department.trim() ||
\* !task.trim(), calls generateUseCases, which runs to the await of invoke
generateUseCases ==
    /\ ui.page = "generator"
    /\ ~(ui.isGenerating \/ Trim(ui.department) = <<>> \/ Trim(ui.task) = <<>>)
    /\ ui.started < MaxEvaluations
    /\ ui' = IF Trim(ui.department) = <<>> \/ Trim(ui.task) = <<>>
             THEN [ui EXCEPT !.toasts = {"Missing Information"}]
             ELSE [ui EXCEPT !.isGenerating = TRUE, !.toasts = {}, !.started = @ + 1,
                             !.pending = @ \cup {[call |-> "generate", table |-> "", id |-> 0]},
                             !.invoked = [fn |-> "generate-usecases",
                                          department |-> Trim(ui.department),
                                          task |-> Trim(ui.task)]]
    /\ Waiting /\ UNCHANGED <<handlers, store>>

\* the invoke that generateUseCases awaits returns
GenerateReturns ==
    LET call == [call |-> "generate", table |-> "", id |-> 0]
    IN  /\ call \in ui.pending
        /\ \E error \in BOOLEAN :
              ui' = [ui EXCEPT !.pending = @ \ {call}, !.isGenerating = FALSE,
                               !.toasts = IF error THEN {"Generation Failed"}
                                          ELSE {"Use Cases Generated!"},
                               !.report = call @@ [error |-> error]]
        /\ Waiting /\ UNCHANGED <<handlers, store>>

\* the user clicks a record of a list of the history page
setSelected(table, id) ==
    /\ ui.page = "history"
    /\ \E i \in DOMAIN ui.list[table] : ui.list[table][i] = id
    /\ ui' = [ui EXCEPT !.selected[table] = id, !.toasts = {}]
    /\ Waiting /\ UNCHANGED <<handlers, store>>

\* the Delete button of the selected record calls deleteEvaluation (table
\* prompt_evaluations) or deleteUsecase (table usecase_generations), which
\* runs to the await of the delete
deleteEvaluation(table, id) ==
    /\ ui.page = "history"
    /\ ui.selected[table] = id
    /\ id # 0
    /\ ui' = [ui EXCEPT !.toasts = {},
                        !.pending = @ \cup {[call |-> "delete", table |-> table, id |-> id]}]
    /\ Waiting /\ UNCHANGED <<handlers, store>>

\* a mutant of DeleteReturns: the list is filtered and the selection cleared
\* before the error of the delete is looked at
DeleteReturnsEager(table, id) ==
    LET call == [call |-> "delete", table |-> table, id |-> id]
        filter(list) == SelectSeq(list, LAMBDA x : x # id)
    IN  /\ call \in ui.pending
        /\ \E error \in BOOLEAN :
              ui' = [ui EXCEPT !.pending = @ \ {call}, !.report = call @@ [error |-> error],
                               !.stored[table] = IF error THEN @ ELSE @ \ {id},
                               !.list[table] = filter(@), !.selected[table] = 0,
                               !.toasts = IF error THEN {"Error"} ELSE {"Deleted"}]
        /\ Waiting /\ UNCHANGED <<handlers, store>>

\* the delete that deleteEvaluation or deleteUsecase awaits returns: an
\* error is thrown to the catch block; else the list is filtered by the id
\* and the selection is set to null
DeleteReturns(table, id) ==
    LET call == [call |-> "delete", table |-> table, id |-> id]
        filter(list) == SelectSeq(list, LAMBDA x : x # id)
    IN  /\ call \in ui.pending
        /\ \E error \in BOOLEAN :
              ui' = IF error
                    THEN [ui EXCEPT !.pending = @ \ {call}, !.toasts = {"Error"},
                                    !.report = call @@ [error |-> TRUE]]
                    ELSE [ui EXCEPT !.pending = @ \ {call}, !.toasts = {"Deleted"},
                                    !.report = call @@ [error |-> FALSE],
                                    !.stored[table] = @ \ {id},
                                    !.list[table] = filter(@), !.selected[table] = 0]
        /\ Waiting /\ UNCHANGED <<handlers, store>>

\* one visit of a page; a call that a handler awaits returns
AppSpec ==
    /\ Init
    /\ [][\/ \E page \in {"evaluator", "generator", "history"} : Open(page)
          \/ handleEvaluate
          \/ EvaluateReturns
          \/ \E caller \in {"autosave", "manualsave"} : SaveReturns(caller)
          \/ handleManualSave
          \/ generateUseCases
          \/ GenerateReturns
          \/ \E table \in {"prompt_evaluations", "usecase_generations"}, id \in 1..MaxRows :
                \/ setSelected(table, id)
                \/ deleteEvaluation(table, id)
                \/ DeleteReturns(table, id)]_vars
    /\ WF_vars(EvaluateReturns)
    /\ WF_vars(SaveReturns("autosave"))

(***************************************************************************)
(* What the caller of a function sees                                      *)
(***************************************************************************)
\* the handler has answered with its success response
Success == pc = "done" /\ outcome.kind = "success"

\* data of supabase.functions.invoke: the parsed body of a success response
data == IF response.status = 200 THEN JSONparse(response.body).val ELSE Null

\* response.usecases || []
usecases == IF IsArray(Get(data, K("usecases"))) THEN Get(data, K("usecases")).v ELSE <<>>

\* interface EvaluationResult
EvaluationResult(x) ==
    IsObject(x) /\ \A k \in {"match", "reason", "rating"} : IsString(Get(x, K(k)))

\* interface UseCase
UseCase(x) ==
    /\ IsObject(x)
    /\ \A k \in {"title", "description", "benefits", "implementation"} : IsString(Get(x, K(k)))

\* interface UseCaseResponse
UseCaseResponse(x) ==
    /\ IsObject(x)
    /\ IsArray(Get(x, K("usecases")))
    /\ \A i \in 1..Len(Get(x, K("usecases")).v) : UseCase(Get(x, K("usecases")).v[i])

\* the error field of the body of an error response
error == IF response.status = 500 THEN Get(JSONparse(response.body).val, K("error")) ELSE Undefined

\* the handler parsed the model text read in the envelope: the text is a
\* string, and in generate-usecases it is not empty
Normalized ==
    /\ pc = "done"
    /\ fn \in {EvalGemini, GenUseCases}
    /\ req.method = "POST"
    /\ IsString(result)
    /\ fn = GenUseCases => result.v # <<>>

(***************************************************************************)
(* Claims C1 to C10                                                        *)
(***************************************************************************)
\* C1: a request with non-empty inputs ends in one of two outcomes only, a
\* success response whose body has the declared shape (an evaluation with
\* match, reason and rating all strings; a list of 1 to 5 use cases with
\* every field a string) or a configuration or upstream error.
C1_TwoOutcomes ==
    (pc = "done" /\ fn \in {EvalGemini, GenUseCases} /\ req.method = "POST" /\ req.body = "valid")
    => \/ /\ outcome.kind = "success"
          /\ response.status = 200
          /\ IF fn = GenUseCases
             THEN UseCaseResponse(data) /\ Len(usecases) \in 1..MaxUseCases
             ELSE EvaluationResult(data)
       \/ /\ outcome.kind \in {"configuration", "network", "status", "envelope"}
          /\ response.status = 500

\* a success response of generate-usecases whose body is not a UseCaseResponse
C1_ShapelessSuccess ==
    Success /\ fn = GenUseCases /\ req.body = "valid" /\ ~UseCaseResponse(data)

\* C2: with the credential configured, a success status and an envelope
\* holding a non-empty model text, the handler answers with a success
\* response whatever the text is.
C2_TextAlwaysSucceeds ==
    (Normalized /\ apiKey /\ Ok(reply.status) /\ result.v # <<>>)
    => outcome.kind = "success" /\ response.status = 200

\* the model text null ends generate-usecases with the error response
C2_NullTextFails ==
    /\ Normalized
    /\ fn = GenUseCases
    /\ result = S("null")
    /\ outcome.kind = "normalization"
    /\ response.status = 500

\* C3: every evaluation returned in a success response of evaluate-prompt
\* has match, reason and rating present as strings, whichever stage made it.
C3_EvaluationFields ==
    (Success /\ fn \in {EvalGemini, EvalOpenAI}) => EvaluationResult(data)

\* a strictly parsed object without rating is returned as it is
C3_RatingAbsent ==
    /\ Success
    /\ fn = EvalGemini
    /\ stage = {"strict"}
    /\ IsObject(data)
    /\ IsString(Get(data, K("match")))
    /\ Get(data, K("rating")) = Undefined

\* C4: in every success response of generate-usecases the usecases list
\* has between 1 and 5 items.
C4_OneToFive ==
    (Success /\ fn = GenUseCases)
    => IsArray(Get(data, K("usecases"))) /\ Len(usecases) \in 1..MaxUseCases

\* a strictly parsed list of more than 5 items is returned in full
C4_MoreThanFive ==
    Success /\ fn = GenUseCases /\ stage = {"strict"} /\ Len(usecases) > MaxUseCases

\* C5: when the strict parse succeeds, every item of the returned list
\* carries title, description, benefits and implementation as strings, an
\* item that lacked one in the model text included.
C5_FieldDefaults ==
    (Success /\ fn = GenUseCases /\ stage = {"strict"})
    => \A i \in 1..Len(usecases) : IsObject(usecases[i]) => UseCase(usecases[i])

\* a strictly parsed item without benefits is returned without benefits
C5_BenefitsAbsent ==
    /\ Success
    /\ fn = GenUseCases
    /\ stage = {"strict"}
    /\ \E i \in 1..Len(usecases) :
          /\ IsObject(usecases[i])
          /\ IsString(Get(usecases[i], K("title")))
          /\ Get(usecases[i], K("benefits")) = Undefined

\* C6: every placeholder item generate-usecases substitutes (general
\* fallback, structure check) has title, description, benefits and
\* implementation populated with strings.
C6_PlaceholderFields ==
    (Success /\ fn = GenUseCases /\ stage \cap {"general", "structure"} # {})
    => UseCaseResponse(data)

\* the placeholder of the structure check carries a title and nothing else
C6_TitleOnly ==
    /\ Success
    /\ fn = GenUseCases
    /\ "structure" \in stage
    /\ data = UseCases(<<StructureUseCase>>)
    /\ Get(usecases[1], K("description")) = Undefined

\* C7 as stated: if the cleaned model text is valid JSON, the returned
\* result is exactly its parsed value and the extraction is not run.
C7_StrictVerbatim ==
    LET Verbatim(parsed) ==
            parsed.ok => /\ outcome.kind = "success"
                         /\ data = parsed.val
                         /\ "extraction" \notin stage
    IN  Normalized => Verbatim(JSONparse(cleanedResult(result.v)))

\* C7: if the cleaned model text is valid JSON, the extraction is not run;
\* evaluate-prompt returns the parsed value exactly; generate-usecases
\* returns it exactly when it carries a usecases list, answers with the
\* error response when it is null, and returns the single placeholder of
\* the structure check for every other value.
C7_StrictPrecedence ==
    LET Strict(parsed) ==
            parsed.ok
            => /\ "extraction" \notin stage
               /\ IF fn = EvalGemini \/ IsArray(Get(parsed.val, K("usecases")))
                  THEN outcome.kind = "success" /\ data = parsed.val
                  ELSE IF parsed.val = Null
                  THEN outcome.kind = "normalization" /\ response.status = 500
                  ELSE outcome.kind = "success" /\ data = UseCases(<<StructureUseCase>>)
    IN  Normalized => Strict(JSONparse(cleanedResult(result.v)))

\* a use-case list in a json code fence is returned as the model wrote it
C7_FencedList ==
    /\ Success
    /\ fn = GenUseCases
    /\ stage = {"strict"}
    /\ SubSeq(result.v, 1, 4) = <<BQ, BQ, BQ, "json">>
    /\ Len(usecases) = 2
    /\ data = JSONparse(cleanedResult(result.v)).val

\* C8: for model text of numbered lines and no JSON, the extraction
\* returns one item per line, in line order, each carrying the text of its
\* line after the number.
C8_OneItemPerLine ==
    \A n \in 1..MaxLines :
        (Success /\ fn = GenUseCases
         /\ result = Str(Join([i \in 1..n |-> PartOf("numbered", i)], <<NL>>)))
        => /\ Len(usecases) = n
           /\ \A i \in 1..n : Get(usecases[i], K("title")) = Str(<<Word(i), SP, "item">>)

\* two numbered lines give one item, and its title is the default title
C8_TwoLinesOneItem ==
    /\ Success
    /\ fn = GenUseCases
    /\ result = Str(PartOf("numbered", 1) \o <<NL>> \o PartOf("numbered", 2))
    /\ stage = {"extraction", "pattern1"}
    /\ Len(usecases) = 1
    /\ Get(usecases[1], K("title")) = S("AI Solution")

\* C9: for model text with no JSON and no list pattern (prose, with or
\* without blank lines), generate-usecases returns exactly one item, the
\* fixed placeholder.
C9_OnePlaceholder ==
    (Success /\ fn = GenUseCases
     /\ result.v \in Composed({"plain", "blank"}, MaxLines, <<NL>>)
     /\ \E j \in 1..Len(result.v) : result.v[j] = "prose")
    => usecases = <<GeneralUseCase>>

\* two paragraphs of prose with a blank line between them give two items
C9_TwoItems ==
    /\ Success
    /\ fn = GenUseCases
    /\ result = Str(PartOf("plain", 1) \o <<NL, NL>> \o PartOf("plain", 3))
    /\ Len(usecases) = 2

\* C10: when the extraction yields more than 5 items, the returned list
\* holds exactly the first 5 of them, in extraction order.
C10_FirstFive ==
    LET Truncated(extracted) ==
            Len(extracted) > MaxUseCases
            => usecases = [i \in 1..MaxUseCases |-> extracted[i]]
    IN  (Success /\ fn = GenUseCases /\ "extraction" \in stage)
        => Truncated(extractedUseCases(PatternLoop(result.v, 1)))

\* six labelled blocks are extracted and five are returned
C10_SixExtracted ==
    /\ Success
    /\ fn = GenUseCases
    /\ "extraction" \in stage
    /\ Len(MatchAll(1, result.v, 1)) > MaxUseCases
    /\ Len(usecases) = MaxUseCases
    /\ Get(usecases[1], K("title")) = S(Word(1))

C12_StatusReported ==
    (pc = "done" /\ reply.net /\ ~Ok(reply.status))
    => /\ outcome.kind = "status"
       /\ response.status = 500
       /\ IsString(error)
       /\ \E j \in 1..Len(error.v) : error.v[j] = ToString(reply.status)
       /\ result = Undefined
       /\ returned = Undefined
       /\ stage = {}

\* generate-usecases reports status 500 of the provider in its error text
C12_Status500 ==
    /\ pc = "done"
    /\ fn = GenUseCases
    /\ reply.status = 500
    /\ error = Str(<<"Gemini API error: ", "500", " - ", "quota exceeded">>)

\* C13: in both pipelines the error reported for a reply that is not a
\* success carries the provider's status code and the provider's response
\* body.
C13_StatusAndBody ==
    LET Carries(text, part) ==
            \E j \in 1..(Len(text) - Len(part) + 1) : SubSeq(text, j, j + Len(part) - 1) = part
    IN  (pc = "done" /\ fn \in {EvalGemini, GenUseCases} /\ reply.net /\ ~Ok(reply.status))
        => /\ IsString(error)
           /\ Carries(error.v, <<ToString(reply.status)>>)
           /\ Carries(error.v, reply.errorText)

\* evaluate-prompt reports the status and drops the provider's body
C13_BodyDropped ==
    /\ pc = "done"
    /\ fn = EvalGemini
    /\ reply.status = 500
    /\ reply.errorText = <<"quota exceeded">>
    /\ error = Str(<<"Gemini API error: ", "500">>)

\* C14: in both pipelines a reply with a success status whose envelope has
\* no text at the end of candidates[0].content.parts[0].text is fatal and
\* reported as an invalid upstream response; it yields no normalized result
\* and no success response.
C14_InvalidEnvelopeReported ==
    LET NoText(text) == Nullish(text.val)
    IN  (pc = "done" /\ fn \in {EvalGemini, GenUseCases}
         /\ reply.net /\ Ok(reply.status) /\ reply.json
         /\ NoText(Walk(reply.data, TextPath(fn), TRUE)))
        => /\ outcome.kind = "envelope"
           /\ response.status = 500
           /\ error = S("Invalid response structure from Gemini API")
           /\ returned = Undefined
           /\ stage = {}

\* evaluate-prompt answers an empty envelope with the TypeError of the
\* property access
C14_TypeErrorReported ==
    /\ pc = "done"
    /\ fn = EvalGemini
    /\ Ok(reply.status)
    /\ reply.data = Obj(<<>>)
    /\ response.status = 500
    /\ error = S("Cannot read properties of undefined")

C18_FormsDistinct ==
    (pc = "done" /\ fn \in {EvalGemini, GenUseCases} /\ req.method = "POST")
    => /\ outcome.kind \in {"configuration", "network", "status", "envelope"}
          => response.status = 500 /\ IsString(error)
       /\ outcome.kind = "success" => response.status = 200 /\ error = Undefined
       /\ response.status = 500
          => outcome.kind \in {"request", "configuration", "network", "status", "envelope"}

\* a model text that is null in a json code fence is answered with the
\* error form although the provider call succeeded
C18_DegradedAsError ==
    /\ Normalized
    /\ fn = GenUseCases
    /\ Ok(reply.status)
    /\ result = Str(Wrap("fenced", <<"null">>))
    /\ response.status = 500
    /\ IsString(error)

\* C20 as stated: match and rating of an evaluation are exactly the
\* substrings extracted from the model output, their case unchanged, on the
\* strict path and on the path of the regular expressions alike.
C20_CasePreserved ==
    LET Extracted(matchMatch, ratingMatch) ==
            /\ matchMatch.found => Get(data, K("match")) = Str(matchMatch.g1)
            /\ ratingMatch.found => Get(data, K("rating")) = Str(ratingMatch.g1)
        Parsed(parsed) ==
            /\ Get(data, K("match")) = Get(parsed, K("match"))
            /\ Get(data, K("rating")) = Get(parsed, K("rating"))
    IN  (Success /\ fn = EvalGemini /\ Normalized)
        => IF stage = {"strict"} THEN Parsed(JSONparse(cleanedResult(result.v)).val)
           ELSE Extracted(StringMatch("match", result.v, 1), StringMatch("rating", result.v, 1))

\* C20: on the strict path match and rating are exactly the values of the
\* parsed object; on the path of the regular expressions rating is exactly
\* the extracted substring and match is the extracted verdict with its first
\* letter in upper case and the others in lower case.
C20_VerdictCapitalized ==
    LET Cap(w) ==
            CASE w \in {"yes", "Yes", "YES"} -> "Yes"
              [] w \in {"no", "No", "NO"} -> "No"
              [] w \in {"partially", "Partially"} -> "Partially"
              [] w \in {"maybe", "Maybe"} -> "Maybe"
              [] OTHER -> "Unclear"
        Extracted(matchMatch, ratingMatch) ==
            /\ matchMatch.found => Get(data, K("match")) = S(Cap(matchMatch.g1[1]))
            /\ ~matchMatch.found => Get(data, K("match")) = S("Analysis provided")
            /\ ratingMatch.found => Get(data, K("rating")) = Str(ratingMatch.g1)
            /\ ~ratingMatch.found => Get(data, K("rating")) = S("See analysis for details")
        Parsed(parsed) ==
            /\ Get(data, K("match")) = Get(parsed, K("match"))
            /\ Get(data, K("rating")) = Get(parsed, K("rating"))
    IN  (Success /\ fn = EvalGemini /\ Normalized)
        => IF stage = {"strict"} THEN Parsed(JSONparse(cleanedResult(result.v)).val)
           ELSE Extracted(StringMatch("match", result.v, 1), StringMatch("rating", result.v, 1))

\* the verdict YES of the model text is returned as Yes
C20_YesForYES ==
    /\ Success
    /\ fn = EvalGemini
    /\ stage = {"extraction"}
    /\ result = Str(PartOf("match", 1))
    /\ Get(data, K("match")) = S("Yes")

\* C19 as stated: generate-usecases chooses the context from the department
\* name in lower case: the entry of the table whose key is the name; else
\* the entry of a key of the table that is part of the name; else the generic
\* description; and a name without a match does not end the request.
C19_LookupOrder ==
    LET Keys == 1..Len(departmentContext)
        Chosen(deptKey) ==
            CASE \E i \in Keys : departmentContext[i].k = deptKey
                   -> \E i \in Keys : /\ departmentContext[i].k = deptKey
                                      /\ deptContext = departmentContext[i].val
              [] /\ \A i \in Keys : departmentContext[i].k # deptKey
                 /\ \E i \in Keys : includes(deptKey, departmentContext[i].k)
                   -> \E i \in Keys : /\ includes(deptKey, departmentContext[i].k)
                                      /\ deptContext = departmentContext[i].val
              [] OTHER
                   -> deptContext = Str(<<"This department focuses on core business operations and workflows.">>)
    IN  (fn = GenUseCases /\ req.method = "POST" /\ apiKey /\ IsString(department) /\ pc # "received")
        => /\ pc # "done" \/ outcome.kind # "request"
           /\ Chosen(toLowerCase(department.v))

\* C19: the department named constructor has no entry in the table and gets
\* the function Object as its context
C19_InheritedContext ==
    /\ fn = GenUseCases
    /\ pc = "awaiting"
    /\ department = Str(<<"constructor">>)
    /\ deptContext = ObjectConstructor

\* C16: whatever the interleaving of the handlers, the response to every
\* request is the response its handler gives alone to the same request and
\* the same reply of the provider.
C16_AsIfAlone ==
    LET Alone(h, early) ==
            IF early.done
            THEN h.response = early.response /\ h.reply = NoReply
            ELSE h.response = AfterFetch(h.fn, h.reply).response
    IN  \A i \in Requests :
            handlers[i].pc = "done"
            => Alone(handlers[i], BeforeFetch(handlers[i].fn, apiKey, handlers[i].req))

\* C16: one request has been answered from its own reply while the reply
\* to the other request, a different one, was waiting to be handled
C16_AnsweredBesideAnother ==
    /\ handlers["first"].pc = "done"
    /\ handlers["first"].fn = EvalGemini
    /\ handlers["first"].reply.data = Nest(TextPath(EvalGemini), 6, Str(PartOf("match", 1)))
    /\ handlers["first"].response.status = 200
    /\ Get(handlers["first"].returned, K("match")) = S("Yes")
    /\ handlers["second"].pc = "replied"
    /\ handlers["second"].fn = EvalGemini
    /\ handlers["second"].reply = Reply(TRUE, 500, FALSE, Null, <<"quota exceeded">>)

C21_ReasonExtracted ==
    LET Expected(text, r, e, a) ==
            CASE r.found -> Trim(r.g1)
              [] ~r.found /\ e.found -> Trim(e.g1)
              [] ~r.found /\ ~e.found /\ a.found -> Trim(a.g1)
              [] OTHER -> Trim(RemoveJsonLike(RemoveClosingCodeBlocks(RemoveCodeBlocks(text, 1), 1), 1))
        Of(text) ==
            Expected(text, StringMatch("reason", text, 1), StringMatch("explanation", text, 1),
                     StringMatch("analysis", text, 1))
    IN  (Success /\ fn = EvalGemini /\ stage = {"extraction"})
        => Get(returned, K("reason")) = Str(Of(result.v))

\* C21: on the path of the regular expressions of evaluate-prompt the
\* returned reason is the trimmed text captured by the first of the patterns
\* reason, explanation, analysis that matches, and with no match the whole
\* text without code fences and without fragments in braces, trimmed; where
\* that leaves nothing, the reason is the fixed message.
C21_ReasonOrMessage ==
    LET Expected(text, r, e, a) ==
            CASE r.found -> Trim(r.g1)
              [] ~r.found /\ e.found -> Trim(e.g1)
              [] ~r.found /\ ~e.found /\ a.found -> Trim(a.g1)
              [] OTHER -> Trim(RemoveJsonLike(RemoveClosingCodeBlocks(RemoveCodeBlocks(text, 1), 1), 1))
        Returned(reason) ==
            IF reason = <<>>
            THEN S("The AI provided an analysis but in an unexpected format.")
            ELSE Str(reason)
        Of(text) ==
            Expected(text, StringMatch("reason", text, 1), StringMatch("explanation", text, 1),
                     StringMatch("analysis", text, 1))
    IN  (Success /\ fn = EvalGemini /\ stage = {"extraction"})
        => Get(returned, K("reason")) = Returned(Of(result.v))

\* C21: a text with no labelled reason and a fragment in braces has been
\* answered with the text before the fragment
C21_FragmentRemoved ==
    /\ Success
    /\ fn = EvalGemini
    /\ stage = {"extraction"}
    /\ result = Str(PartOf("prose", 1))
    /\ Get(returned, K("reason")) = S("fine")

\* C22 as stated: for a model text of labelled blocks that is not JSON,
\* generate-usecases returns one item per block, the last block included,
\* with the title of the label line and the body as description, and no
\* other item.
C22_OneItemPerBlock ==
    \A n \in 1..MaxUseCases :
        (Success /\ fn = GenUseCases
         /\ result = Str(Join([i \in 1..n |-> PartOf("block", i)], <<>>)))
        => /\ Len(usecases) = n
           /\ \A i \in 1..n :
                 /\ Get(usecases[i], K("title")) = S(Word(i))
                 /\ Get(usecases[i], K("description")) = Str(<<"body", SP, Word(i)>>)

\* C22: of two labelled blocks the first is returned as an item and the
\* last is not: in its place stands an item with the default title
C22_LastBlockLost ==
    /\ Success
    /\ fn = GenUseCases
    /\ result = Str(PartOf("block", 1) \o PartOf("block", 2))
    /\ Len(usecases) = 2
    /\ Get(usecases[1], K("title")) = S(Word(1))
    /\ Get(usecases[1], K("description")) = Str(<<"body", SP, Word(1)>>)
    /\ Get(usecases[2], K("title")) = S("AI Solution")

\* C25: whenever generate-usecases extracts, the first pattern has matched,
\* its last match being the empty match at the end of the text; the other
\* two patterns and the general response are not used.
C25_FirstPatternAlways ==
    LET AtEnd(text, ms) ==
            /\ Len(ms) >= 1
            /\ ms[Len(ms)].start = Len(text) + 1
            /\ ms[Len(ms)].end = Len(text) + 1
            /\ ~ms[Len(ms)].has1
    IN  (pc = "done" /\ fn = GenUseCases /\ "extraction" \in stage)
        => /\ stage = {"extraction", "pattern1"}
           /\ usecases # <<GeneralUseCase>>
           /\ AtEnd(result.v, MatchAll(1, result.v, 1))

\* C25: a text of two bulleted lines was extracted with the first pattern,
\* which found nothing but the end of the text
C25_BulletsByFirstPattern ==
    /\ Success
    /\ fn = GenUseCases
    /\ result = Str(PartOf("bulleted", 1) \o <<NL>> \o PartOf("bulleted", 2))
    /\ stage = {"extraction", "pattern1"}
    /\ Len(usecases) = 1
    /\ Get(usecases[1], K("title")) = S("AI Solution")

\* C26: every evaluation that evaluate-prompt builds with the regular
\* expressions has match, reason and rating as strings that are not empty:
\* match is a verdict word or "Analysis provided", rating is the matched
\* rating text or "See analysis for details", and reason is the fixed
\* message exactly when no text is left for it.
C26_AllFieldsPresent ==
    LET Field(k) == Get(returned, K(k))
        Rating(ratingMatch) ==
            IF ratingMatch.found THEN Field("rating") = Str(ratingMatch.g1)
            ELSE Field("rating") = S("See analysis for details")
        Reason(reason) ==
            (reason = <<>>)
            <=> Field("reason") = S("The AI provided an analysis but in an unexpected format.")
    IN  (Success /\ fn = EvalGemini /\ stage = {"extraction"})
        => /\ \A k \in {"match", "reason", "rating"} : IsString(Field(k)) /\ Field(k).v # <<>>
           /\ Field("match") \in {S("Yes"), S("No"), S("Partially"), S("Maybe"), S("Unclear"),
                                  S("Analysis provided")}
           /\ Rating(StringMatch("rating", result.v, 1))
           /\ Reason(fallbackReason(result.v))

\* C26: a model text of one newline has been answered with the three defaults
C26_AllDefaults ==
    /\ Success
    /\ fn = EvalGemini
    /\ result = Str(<<NL>>)
    /\ returned = Evaluation(S("Analysis provided"),
                             S("The AI provided an analysis but in an unexpected format."),
                             S("See analysis for details"))

\* C24: in the record store, for both tables, a signed-in user selects,
\* updates and deletes only rows whose user_id is their own identity and
\* inserts only rows carrying it: the rows a statement returns are the
\* user's own, and a statement leaves every row of another user as it was
\* and creates no row of another user.
C24_OwnRowsOnly ==
    /\ [](\A r \in store.seen : r.user_id = store.actor)
    /\ [][\A r \in store.rows \cup store.rows' :
             r.user_id # store.actor' => (r \in store.rows <=> r \in store.rows')]_vars

\* C24 witness: a select by ann returned her row of a table in which bob
\* holds a row too, after a statement of hers on bob's row was of no effect
C24_BesideAnothersRow ==
    /\ store.actor = "ann"
    /\ \E r \in store.seen, o \in store.rows :
          r.table = o.table /\ o.user_id = "bob" /\ o.text = "first" /\ r.text = "edited"

\* C23: the pages invoke evaluate-prompt only with a prompt that is not
\* empty or whitespace and with a selected technique, and generate-usecases
\* only with a department and a task that are not empty or whitespace; the
\* prompt, department and task sent are the typed values trimmed.
C23_OnlyTrimmedInputs ==
    LET Sent(typed, sent) ==
            /\ sent = Trim(typed)
            /\ sent # <<>>
            /\ sent[1] \notin {SP, NL}
            /\ sent[Len(sent)] \notin {SP, NL}
    IN  /\ ui.started > 0 <=> ui.invoked.fn # "none"
        /\ ui.invoked.fn = "evaluate-prompt"
           => Sent(ui.prompt, ui.invoked.prompt) /\ ui.invoked.selectedTechnique # ""
        /\ ui.invoked.fn = "generate-usecases"
           => Sent(ui.department, ui.invoked.department) /\ Sent(ui.task, ui.invoked.task)

\* C23 witness: a prompt typed with a space before and a newline after it
\* has been sent without them
C23_TrimmedPromptSent ==
    /\ ui.prompt = <<SP, "text", NL>>
    /\ ui.invoked = [fn |-> "evaluate-prompt", prompt |-> <<"text">>,
                     selectedTechnique |-> "few-shot"]

\* C27: in the evaluator page "Evaluation Complete" (analyzed and saved
\* successfully) is shown only by the step in which the insert of the
\* automatic save returned without error, and "Saved" only by the step in
\* which the insert of the manual save did; after a failed insert, or
\* without a user, no such notification is shown.
C27_SavedMeansInserted ==
    /\ "Evaluation Complete" \in ui.toasts
       => ui.report.call = "autosave" /\ ~ui.report.error /\ ui.inserts[ui.report.id] > 0
    /\ "Saved" \in ui.toasts
       => ui.report.call = "manualsave" /\ ~ui.report.error /\ ui.inserts[ui.report.id] > 0
    /\ "Save Failed" \in ui.toasts => ui.toasts = {"Save Failed"}

\* C27 witness: the insert of the automatic save failed, no row is stored
\* for the evaluation, and "Save Failed" and "Evaluation Complete" are shown
C27_CompleteAfterFailedSave ==
    /\ ui.user
    /\ ui.evaluation = 1
    /\ ui.report = [call |-> "autosave", table |-> "prompt_evaluations", id |-> 1,
                    error |-> TRUE]
    /\ ui.inserts[1] = 0
    /\ ui.toasts = {"Save Failed", "Evaluation Complete"}

\* C28: in the evaluator page the record store receives at most one insert
\* for one evaluation, whatever the user does after it.
C28_OneInsertPerEvaluation ==
    \A n \in DOMAIN ui.inserts :
       /\ ui.inserts[n] <= 1
       /\ Cardinality({c \in ui.pending : c.table = "prompt_evaluations" /\ c.id = n}) <= 1

\* C28 witness: one evaluation was obtained and saved automatically, Save to
\* History was pressed once, and two rows are stored for it
C28_SavedTwice ==
    /\ ui.evaluated = 1
    /\ ui.started = 1
    /\ ui.inserts[1] = 2
    /\ ui.report.call = "manualsave"
    /\ ui.toasts = {"Saved"}

\* C29: in the history page a step removes a record from a list, or sets a
\* selection to null, only when the store reports a delete on that table as
\* successful, and then removes no record other than the one with the id of
\* the delete; when the store reports an error, the lists and the selections
\* stay as they are.
C29_DeleteFrame ==
    [][ui.page = "history"
       => LET Set(list) == {list[i] : i \in DOMAIN list}
              Returned == ui.pending \ ui'.pending
              Kept(t) == SelectSeq(ui.list[t], LAMBDA x : x \in Set(ui'.list[t]))
          IN  \A t \in DOMAIN ui.list :
                 /\ ui'.list[t] = Kept(t)
                 /\ (ui'.list[t] # ui.list[t] \/ (ui'.selected[t] = 0 /\ ui.selected[t] # 0))
                    => /\ Returned = {[call |-> "delete", table |-> t, id |-> ui'.report.id]}
                       /\ ~ui'.report.error
                       /\ Set(ui.list[t]) \ Set(ui'.list[t]) \subseteq {ui'.report.id}
                 /\ (Returned # {} /\ ui'.report.error)
                    => ui'.list = ui.list /\ ui'.selected = ui.selected
                 /\ (Returned # {} /\ ~ui'.report.error /\ ui'.report.table = t)
                    => /\ ui'.report.id \notin Set(ui'.list[t])
                       /\ ui'.selected[t] = 0]_vars

\* C29 witness: of two evaluations listed and the second selected, the delete
\* of the first was reported successful and the delete of a use-case
\* generation was reported as an error
C29_OneRemovedOneKept ==
    /\ ui.page = "history"
    /\ ui.list["prompt_evaluations"] = <<2>>
    /\ ui.selected["prompt_evaluations"] = 0
    /\ ui.list["usecase_generations"] = <<1, 2>>
    /\ ui.selected["usecase_generations"] = 1
    /\ ui.report = [call |-> "delete", table |-> "usecase_generations", id |-> 1,
                    error |-> TRUE]
    /\ ui.stored["prompt_evaluations"] = {2}

\* C30: in the evaluator page isEvaluating, once true, becomes false again
\* when the calls that handleEvaluate awaits have returned, with data, with
\* an error or with a failed save; and no backend call is started while
\* isEvaluating is true.
C30_BusyFlagCleared ==
    /\ ui.isEvaluating ~> ~ui.isEvaluating
    /\ [](ui.isEvaluating <=> \E c \in ui.pending : c.call \in {"evaluate", "autosave"})
    /\ [][(ui.page = "evaluator" /\ ui'.started # ui.started)
           => ~ui.isEvaluating /\ ui'.isEvaluating]_vars

\* C30 witness: the automatic save of an evaluation has failed and the page
\* is not evaluating any more
C30_ClearedAfterFailedSave ==
    /\ ui.page = "evaluator"
    /\ ~ui.isEvaluating
    /\ ui.started = 1
    /\ ui.report.call = "autosave"
    /\ ui.report.error
====
